---- MODULE Spec2Model ----
(***************************************************************************)
(* The real-time synchronisation core of the collaborative canvas:         *)
(*   - the broadcast hub            (backend/src/sse.ts)                    *)
(*   - the space store, the presence tracker and the gateway handlers      *)
(*     (routes/spaces.ts, the second half of src/unnamed/part_000)         *)
(* An async handler is a sequence of steps, one per awaited persistence    *)
(* call; the steps of concurrent requests interleave.  A CanvasItem is     *)
(* modelled with a representative subset of its fields: x, y (required),   *)
(* color (optional, patchable), zIndex (set to 0 by create, patchable),    *)
(* createdBy (optional, not patchable), the two timestamps.                *)
(***************************************************************************)
EXTENDS Integers, Sequences, FiniteSets, TLC

\* ------------------------------------------------------------------ bounds
MaxReqs == 2        \* requests accepted in a run of the whole server
MaxItemReqs == 3    \* requests accepted in a run of the item handlers
MaxStoreReqs == 2   \* requests accepted in a run that checks single store operations
MaxPresenceReqs == 2 \* requests accepted in a run of the space, cursor and stream handlers
MaxFanoutReqs == 2  \* requests accepted in a run with two subscribers
MaxCursorReqs == 2  \* requests accepted in a run of the item and cursor handlers together
MaxClientOps == 2   \* calls of createItem, updateItem and deleteItem in a run of the hook
MaxRemoteEvents == 1 \* events caused by other clients in a run of the hook
MaxClientTicks == 2 \* steps of the client's clock in a run of the hook
MaxStaleOps == 2    \* the same three for the runs about the 500 ms window
MaxStaleEvents == 2
MaxStaleTicks == 2
MaxDebounceOps == 3 \* calls and clock steps for the runs about the 100 ms debounce
MaxDebounceTicks == 3
MaxDeleteOps == 2   \* calls, events and clock steps for the runs about the 5 s guard
MaxDeleteEvents == 1
MaxDeleteTicks == 2
MaxSessionOps == 2  \* calls, clock steps and handled requests for the runs of one hook
MaxSessionTicks == 2 \* against the handlers of the server
MaxSessionReqs == 3
MaxIsolationReqs == 2 \* requests accepted in a run over two spaces
MaxHubCalls == 5    \* calls made in a run of the hub alone
MaxInFlight == 2    \* handlers suspended at an await at the same time
MaxTime == 1        \* largest clock reading

\* ------------------------------------------------------------------ values
Slugs == {"s1", "s2"}
UndefStr == "undefined"
UndefNum == -1
Falsy == {UndefStr, ""}                 \* string values that `||` replaces
ClientItemIds == {"a"}                  \* ids a caller may supply
CursorClientIds == {"c1", "c2"}
NoExclude == 0                          \* excludeClientId not given

NoItem ==
  [oid |-> 0, id |-> "", type |-> "", x |-> 0, y |-> 0, color |-> UndefStr,
   zIndex |-> 0, createdBy |-> UndefStr, createdAt |-> 0, updatedAt |-> 0]
NoDraft == [id |-> UndefStr, type |-> "", x |-> 0, y |-> 0, color |-> UndefStr,
            createdBy |-> UndefStr]
NoCursor == [clientId |-> "", x |-> 0, y |-> 0, name |-> UndefStr, color |-> UndefStr]

\* an SSEEvent; seq is bookkeeping (the order in which mutations were applied),
\* subscriber is the id carried by the handshake frame
Event(type, item, itemId, cursor, seq) ==
  [type |-> type, item |-> item, itemId |-> itemId, cursor |-> cursor,
   subscriber |-> 0, seq |-> seq]
Connected(id) ==
  [type |-> "connected", item |-> NoItem, itemId |-> UndefStr, cursor |-> NoCursor,
   subscriber |-> id, seq |-> 0]

NoEvent == [slug |-> "", event |-> Connected(0)]

VARIABLES
  spaces,           \* slug -> Space; DOMAIN spaces = the slugs in the Map
  cursors,          \* slug -> (clientId -> CursorPosition); partial at both levels
  itemIdCounter,
  clients,          \* slug -> sequence of subscriber ids (a Set iterates in insertion order)
  clientIdCounter,
  streams,          \* subscriber id -> [slug, state, frames]: the stream's controller
  db,               \* slug -> "none" | "ok" | "blocked": the Space row of the mirror
  now,              \* the clock read by new Date()
  reqs,             \* the handlers suspended at an await
  nreq,             \* requests accepted so far
  limit,            \* requests accepted in this run at most
  nmut,             \* mutations applied so far
  lastEvent,        \* the latest broadcast call: its slug and event
  lastResp,         \* the latest response returned
  items,            \* useCanvas: the list the hook returns
  myCreatedItems,   \* useCanvas: ids of items this client created
  myDeletedItems,   \* useCanvas: ids of items this client deleted
  recentUpdates,    \* useCanvas: item id -> Date.now() of the last local update
  pendingUpdates,   \* useCanvas: item id -> the debounced patch and its timer
  timeouts,         \* the setTimeout callbacks that have not run
  calls,            \* the spaceApi requests that have not been answered
  echoes,           \* items created for this client whose item:created has not arrived
  clock,            \* Date.now() at the client
  used,             \* how many calls, remote events, clock steps, tickets and ids so far,
                    \* and how many of the first three this run allows
  lastStep,         \* the latest callback the hook ran
  guards,           \* item id -> the deletes this client issued for it
  cursorList,       \* useCanvas: the cursors state, the other clients' cursors
  mounted,          \* the effect of the hook has run and its cleanup has not
  mine,             \* the seq of the mutations this client's requests caused
  skipped           \* ids whose item:updated of another client the stale window discarded

storeVars == <<spaces, cursors, itemIdCounter>>
hubVars == <<clients, streams>>
serverVars == <<spaces, cursors, itemIdCounter, clients, clientIdCounter, streams,
                db, now, reqs, nreq, limit, nmut, lastEvent, lastResp>>
sessionVars == <<cursorList, mounted, mine, skipped>>
clientVars == <<items, myCreatedItems, myDeletedItems, recentUpdates, pendingUpdates,
                timeouts, calls, echoes, clock, used, lastStep, guards, sessionVars>>
vars == <<serverVars, clientVars>>

EmptyMap == [k \in {} |-> 0]
Drop(f, k) == [j \in DOMAIN f \ {k} |-> f[j]]
Range(s) == {s[i] : i \in DOMAIN s}

\* no hook is mounted: the state of the client while the server is looked at alone
\* ok: the request was not rejected, the event was not skipped
NoStep == [op |-> "", n |-> 0, id |-> "", ok |-> TRUE]
NoneUsed(ops, events, ticks) ==
  [ops |-> 0, events |-> 0, ticks |-> 0, tickets |-> 0, ids |-> 0,
   maxOps |-> ops, maxEvents |-> events, maxTicks |-> ticks]
ClientIdle ==
  /\ items = <<>>
  /\ myCreatedItems = {}
  /\ myDeletedItems = {}
  /\ recentUpdates = EmptyMap
  /\ pendingUpdates = EmptyMap
  /\ timeouts = {}
  /\ calls = {}
  /\ echoes = {}
  /\ clock = 1
  /\ used = NoneUsed(0, 0, 0)
  /\ lastStep = NoStep
  /\ guards = EmptyMap
  /\ cursorList = <<>>
  /\ mounted = FALSE
  /\ mine = {}
  /\ skipped = {}

\* ------------------------------------------------------------------ sse.ts
\* controller.enqueue throws unless the stream is readable
Throws(st, id) == st[id].state # "readable"

\* one controller.enqueue call: calls counts the calls made, frames what was accepted
enqueue(st, id, frame) ==
  IF Throws(st, id) THEN [st EXCEPT ![id].calls = @ + 1]
  ELSE [st EXCEPT ![id].calls = @ + 1, ![id].frames = Append(@, frame)]

NewStream(slug) == [slug |-> slug, state |-> "readable", calls |-> 0, frames |-> <<>>]

\* subscribe: the new registry (the id is the incremented counter)
subscribe(cl, slug, id) ==
  IF slug \in DOMAIN cl THEN [cl EXCEPT ![slug] = Append(@, id)]
  ELSE (slug :> <<id>>) @@ cl

\* an unsubscribe without the clean-up of the emptied set
unsubscribeNoCleanup(cl, slug, id) ==
  IF slug \notin DOMAIN cl THEN cl
  ELSE [cl EXCEPT ![slug] = SelectSeq(@, LAMBDA c : c # id)]

\* an unsubscribe that looks for the id under every slug
unsubscribeAnySlug(cl, slug, id) ==
  LET rest(s) == SelectSeq(cl[s], LAMBDA c : c # id)
      kept == {s \in DOMAIN cl : Len(rest(s)) > 0}
  IN [s \in kept |-> rest(s)]

unsubscribe(cl, slug, id) ==
  IF slug \notin DOMAIN cl THEN cl
  ELSE LET rest == SelectSeq(cl[slug], LAMBDA c : c # id)
       IN IF Len(rest) = 0 THEN Drop(cl, slug) ELSE [cl EXCEPT ![slug] = rest]

\* the subscribers a broadcast call enqueues on
Targets(cl, slug, exclude) ==
  IF slug \notin DOMAIN cl THEN {}
  ELSE {c \in Range(cl[slug]) : ~(exclude # NoExclude /\ c = exclude)}

\* a broadcast that leaves its loop at the first enqueue that throws
broadcastStopAtDead(cl, st, slug, event, exclude) ==
  IF slug \notin DOMAIN cl \/ Len(cl[slug]) = 0 THEN [clients |-> cl, streams |-> st]
  ELSE LET targets == Targets(cl, slug, exclude)
           dead == {c \in targets : Throws(st, c)}
           pos(c) == CHOOSE i \in DOMAIN cl[slug] : cl[slug][i] = c
           reached == {c \in targets : \A d \in dead : pos(c) <= pos(d)}
           rest == SelectSeq(cl[slug], LAMBDA c : c \notin (dead \cap reached))
       IN [clients |-> IF Len(rest) = 0 THEN Drop(cl, slug) ELSE [cl EXCEPT ![slug] = rest],
           streams |-> [c \in DOMAIN st |->
                          IF c \in reached THEN enqueue(st, c, event)[c] ELSE st[c]]]

\* a fan-out to every open stream, whatever its slug
broadcastEverySlug(cl, st, slug, event, exclude) ==
  LET targets == {c \in DOMAIN st : c # exclude}
  IN [clients |-> cl,
      streams |-> [c \in DOMAIN st |->
                     IF c \in targets THEN enqueue(st, c, event)[c] ELSE st[c]]]

\* a loop without the try/catch: the first throwing enqueue ends the call
broadcastNoCatch(cl, st, slug, event, exclude) ==
  IF slug \notin DOMAIN cl \/ Len(cl[slug]) = 0 THEN [clients |-> cl, streams |-> st]
  ELSE LET targets == Targets(cl, slug, exclude)
           pos(c) == CHOOSE i \in DOMAIN cl[slug] : cl[slug][i] = c
           reached == {c \in targets : \A d \in targets : Throws(st, d) => pos(c) <= pos(d)}
       IN [clients |-> cl,
           streams |-> [c \in DOMAIN st |->
                          IF c \in reached THEN enqueue(st, c, event)[c] ELSE st[c]]]

\* broadcast: the registry and the streams when the call returns
broadcast(cl, st, slug, event, exclude) ==
  IF slug \notin DOMAIN cl \/ Len(cl[slug]) = 0 THEN [clients |-> cl, streams |-> st]
  ELSE LET targets == Targets(cl, slug, exclude)
           deadClients == {c \in targets : Throws(st, c)}
           rest == SelectSeq(cl[slug], LAMBDA c : c \notin deadClients)
       IN [clients |-> IF Len(rest) = 0 THEN Drop(cl, slug) ELSE [cl EXCEPT ![slug] = rest],
           streams |-> [c \in DOMAIN st |->
                          IF c \in targets THEN enqueue(st, c, event)[c] ELSE st[c]]]

getClientCount(cl, slug) == IF slug \in DOMAIN cl THEN Len(cl[slug]) ELSE 0

\* ------------------------------------------------------------------ inputs
\* a create body (createItemRequestSchema): the id is optional
Drafts ==
  {[id |-> i, type |-> "sticky", x |-> 1, y |-> 1, color |-> c, createdBy |-> "u1"] :
     i \in Falsy \cup ClientItemIds, c \in {"red"}}

\* an update body (updateItemRequestSchema): every field optional; createdBy is no field of it
Patches ==
  {[x |-> 5, y |-> UndefNum, color |-> UndefStr, zIndex |-> UndefNum],
   [x |-> UndefNum, y |-> UndefNum, color |-> "blue", zIndex |-> 3],
   [x |-> UndefNum, y |-> 2, color |-> UndefStr, zIndex |-> UndefNum]}

CursorInputs ==
  {[clientId |-> c, x |-> px, y |-> 7, name |-> UndefStr, color |-> UndefStr] :
     c \in CursorClientIds, px \in {1, 2}}

\* generateItemId: `item-${++itemIdCounter}-${Date.now()}`
generateItemId(counter, t) == "item-" \o ToString(counter) \o "-" \o ToString(t)

\* ids a request may name: the callers' ids and every id the server has handed out
ItemIdsOf(slug) ==
  IF slug \in DOMAIN spaces THEN {spaces[slug].items[i].id : i \in DOMAIN spaces[slug].items}
  ELSE {}
KnownItemIds ==
  ClientItemIds \cup UNION {ItemIdsOf(s) : s \in Slugs}
    \cup {generateItemId(n, t) : n \in 1..itemIdCounter, t \in 0..now}

\* ------------------------------------------------------------------ routes/spaces.ts
\* the record getOrCreateSpace stores for a slug it has not seen
NewSpace(t) == [items |-> <<>>, createdAt |-> t, updatedAt |-> t]

\* items.findIndex(item => item.id === itemId); 0 stands for -1
findIndex(arr, itemId) ==
  IF \E i \in DOMAIN arr : arr[i].id = itemId
  THEN CHOOSE i \in DOMAIN arr :
         arr[i].id = itemId /\ \A j \in DOMAIN arr : arr[j].id = itemId => i <= j
  ELSE 0

\* items.splice(index, 1) for an index that was found
splice(arr, index) ==
  [i \in 1..(Len(arr) - 1) |-> IF i < index THEN arr[i] ELSE arr[i + 1]]

\* an item built without the caller's createdBy
BuildItemNoCreatedBy(body, itemId, oid, t) ==
  [oid |-> oid, id |-> itemId, type |-> body.type, x |-> body.x, y |-> body.y,
   color |-> body.color, zIndex |-> 0, createdBy |-> UndefStr,
   createdAt |-> t, updatedAt |-> t]

\* the item the create handler builds from the body
BuildItem(body, itemId, oid, t) ==
  [oid |-> oid, id |-> itemId, type |-> body.type, x |-> body.x, y |-> body.y,
   color |-> body.color, zIndex |-> 0, createdBy |-> body.createdBy,
   createdAt |-> t, updatedAt |-> t]

\* a merge that assigns every patch field, present or not
ApplyUpdatesAssignAll(item, updates, t) ==
  [item EXCEPT !.x = updates.x, !.y = updates.y, !.color = updates.color,
               !.zIndex = updates.zIndex, !.updatedAt = t]

\* "Apply updates": one assignment per field that is not undefined, then updatedAt
ApplyUpdates(item, updates, t) ==
  [item EXCEPT
     !.x = IF updates.x # UndefNum THEN updates.x ELSE @,
     !.y = IF updates.y # UndefNum THEN updates.y ELSE @,
     !.color = IF updates.color # UndefStr THEN updates.color ELSE @,
     !.zIndex = IF updates.zIndex # UndefNum THEN updates.zIndex ELSE @,
     !.updatedAt = t]

\* a get-or-create that stores a new record whether or not one is there
getOrCreateSpaceAlways(sp, slug, t) ==
  [spaces |-> (slug :> NewSpace(t)) @@ sp, created |-> TRUE]

\* getOrCreateSpace up to its await: the record is set in the Map before the upsert is
\* awaited; created tells whether the upsert is awaited at all
getOrCreateSpace(sp, slug, t) ==
  IF slug \notin DOMAIN sp
  THEN [spaces |-> (slug :> NewSpace(t)) @@ sp, created |-> TRUE]
  ELSE [spaces |-> sp, created |-> FALSE]

\* prisma.space.upsert: creates the row when there is none
upsert(d, slug, ok) == IF ok /\ d[slug] = "none" THEN [d EXCEPT ![slug] = "ok"] ELSE d

NoResp ==
  [rid |-> 0, op |-> "", slug |-> "", status |-> 0, id |-> "", sub |-> 0,
   blk |-> FALSE, failed |-> FALSE, item |-> NoItem]
Resp(r, status, item) ==
  [rid |-> r.rid, op |-> r.op, slug |-> r.slug, status |-> status, id |-> r.id,
   sub |-> 0, blk |-> r.blk, failed |-> r.failed, item |-> item]

\* a request as it arrives.  blk: the mirror reports the slug blocked at that moment;
\* failed: a persistence call of this request has rejected
NewReq(op, slug, id) ==
  [rid |-> nreq + 1, op |-> op, slug |-> slug, pc |-> "", id |-> id,
   body |-> NoDraft, item |-> NoItem, cursor |-> NoCursor, seq |-> 0,
   blk |-> (db[slug] = "blocked"), failed |-> FALSE]

Accepting == nreq < limit /\ limit' = limit
CanSuspend == Cardinality(reqs) < MaxInFlight
After(r, ok) == [r EXCEPT !.failed = @ \/ ~ok]

\* broadcast(slug, event): no caller passes excludeClientId
Publish(slug, event) ==
  LET b == broadcast(clients, streams, slug, event, NoExclude)
  IN /\ clients' = b.clients
     /\ streams' = b.streams
     /\ lastEvent' = [slug |-> slug, event |-> event]

Respond(r, status, item) == lastResp' = Resp(r, status, item)

\* ---- POST /:slug/items
\* the item is built and pushed, then findUnique is awaited
CreatePush(r, rest, sp) ==
  LET gen == r.body.id \in Falsy
      itemId == IF gen THEN generateItemId(itemIdCounter + 1, now) ELSE r.body.id
      item == BuildItem(r.body, itemId, r.rid, now)
  IN /\ itemIdCounter' = IF gen THEN itemIdCounter + 1 ELSE itemIdCounter
     /\ spaces' = [sp EXCEPT ![r.slug].items = Append(@, item),
                                 ![r.slug].updatedAt = now]
     /\ nmut' = nmut + 1
     /\ reqs' = rest \cup {[r EXCEPT !.pc = "findUnique", !.item = item,
                                     !.id = itemId, !.seq = nmut + 1]}

CreateItemStart(slug, body) ==
  /\ Accepting /\ CanSuspend
  /\ nreq' = nreq + 1
  /\ LET r == [NewReq("createItem", slug, body.id) EXCEPT !.body = body]
         g == getOrCreateSpace(spaces, slug, now)
     IN IF ~g.created
        THEN CreatePush(r, reqs, g.spaces)
        ELSE /\ spaces' = g.spaces
             /\ reqs' = reqs \cup {[r EXCEPT !.pc = "upsert"]}
             /\ UNCHANGED <<itemIdCounter, nmut>>
  /\ UNCHANGED <<cursors, hubVars, clientIdCounter, db, now, lastEvent, lastResp, clientVars>>

CreateAfterUpsert(r, ok) ==
  /\ r.op = "createItem" /\ r.pc = "upsert"
  /\ db' = upsert(db, r.slug, ok)
  /\ CreatePush(After(r, ok), reqs \ {r}, spaces)
  /\ UNCHANGED <<cursors, hubVars, clientIdCounter, now, nreq, limit, lastEvent, lastResp,
                 clientVars>>

\* a create that broadcasts the item as it was built, not the object held in the space
CreateFinishAsBuilt(r, q) ==
  /\ Publish(q.slug, Event("item:created",
                           BuildItem(q.body, q.id, q.rid, q.item.createdAt),
                           UndefStr, NoCursor, q.seq))
  /\ reqs' = reqs \ {r}
  /\ Respond(q, 201, q.item)

CreateFinish(r, q) ==
  /\ Publish(q.slug, Event("item:created", q.item, UndefStr, NoCursor, q.seq))
  /\ reqs' = reqs \ {r}
  /\ Respond(q, 201, q.item)

\* a rejection of findUnique is not caught: the handler throws
CreateAfterFindUnique(r, ok) ==
  /\ r.op = "createItem" /\ r.pc = "findUnique"
  /\ IF ~ok
     THEN /\ reqs' = reqs \ {r}
          /\ Respond(After(r, ok), 500, NoItem)
          /\ UNCHANGED <<hubVars, lastEvent>>
     ELSE IF db[r.slug] # "none"
     THEN /\ reqs' = (reqs \ {r}) \cup {[r EXCEPT !.pc = "create"]}
          /\ UNCHANGED <<hubVars, lastEvent, lastResp>>
     ELSE CreateFinish(r, r)
  /\ UNCHANGED <<storeVars, clientIdCounter, db, now, nreq, limit, nmut, clientVars>>

CreateAfterDbCreate(r, ok) ==
  /\ r.op = "createItem" /\ r.pc = "create"
  /\ CreateFinish(r, After(r, ok))
  /\ UNCHANGED <<storeVars, clientIdCounter, db, now, nreq, limit, nmut, clientVars>>

\* ---- PATCH /:slug/items/:itemId
\* an update that looks the space up with get-or-create
updateResultGetOrCreate(sp, slug, itemId, updates, t) ==
  LET sp1 == IF slug \in DOMAIN sp THEN sp ELSE (slug :> NewSpace(t)) @@ sp
      idx == findIndex(sp1[slug].items, itemId)
  IN IF idx = 0 THEN [status |-> 404, spaces |-> sp1, item |-> NoItem]
     ELSE LET item == ApplyUpdates(sp1[slug].items[idx], updates, t)
          IN [status |-> 200,
              spaces |-> [sp1 EXCEPT ![slug].items[idx] = item, ![slug].updatedAt = t],
              item |-> item]

updateResult(sp, slug, itemId, updates, t) ==
  IF slug \notin DOMAIN sp THEN [status |-> 404, spaces |-> sp, item |-> NoItem]
  ELSE LET idx == findIndex(sp[slug].items, itemId)
       IN IF idx = 0 THEN [status |-> 404, spaces |-> sp, item |-> NoItem]
          ELSE LET item == ApplyUpdates(sp[slug].items[idx], updates, t)
               IN [status |-> 200,
                   spaces |-> [sp EXCEPT ![slug].items[idx] = item, ![slug].updatedAt = t],
                   item |-> item]

\* the handler is synchronous; a create that still holds the item object sees the change
UpdateItem(slug, itemId, updates) ==
  /\ Accepting
  /\ nreq' = nreq + 1
  /\ LET r == NewReq("updateItem", slug, itemId)
         res == updateResult(spaces, slug, itemId, updates, now)
     IN IF res.status = 404
        THEN /\ spaces' = res.spaces
             /\ Respond(r, 404, NoItem)
             /\ UNCHANGED <<reqs, nmut, hubVars, lastEvent>>
        ELSE /\ spaces' = res.spaces
             /\ reqs' = {IF q.op = "createItem" /\ q.item.oid = res.item.oid
                         THEN [q EXCEPT !.item = res.item] ELSE q : q \in reqs}
             /\ nmut' = nmut + 1
             /\ Publish(slug, Event("item:updated", res.item, UndefStr, NoCursor, nmut + 1))
             /\ Respond(r, 200, res.item)
  /\ UNCHANGED <<cursors, itemIdCounter, clientIdCounter, db, now, clientVars>>

\* ---- DELETE /:slug/items/:itemId
\* a delete without the index check: splice(-1, 1) removes the last item
deleteResultNoIndexCheck(sp, slug, itemId, t) ==
  IF slug \notin DOMAIN sp THEN [status |-> 404, spaces |-> sp]
  ELSE LET idx == findIndex(sp[slug].items, itemId)
           at == IF idx = 0 THEN Len(sp[slug].items) ELSE idx
       IN [status |-> 200,
           spaces |-> [sp EXCEPT ![slug].items = IF at = 0 THEN @ ELSE splice(@, at),
                                 ![slug].updatedAt = t]]

deleteResult(sp, slug, itemId, t) ==
  IF slug \notin DOMAIN sp THEN [status |-> 404, spaces |-> sp]
  ELSE LET idx == findIndex(sp[slug].items, itemId)
       IN IF idx = 0 THEN [status |-> 404, spaces |-> sp]
          ELSE [status |-> 200,
                spaces |-> [sp EXCEPT ![slug].items = splice(@, idx), ![slug].updatedAt = t]]

DeleteItemStart(slug, itemId) ==
  /\ Accepting
  /\ nreq' = nreq + 1
  /\ LET r == NewReq("deleteItem", slug, itemId)
         res == deleteResult(spaces, slug, itemId, now)
     IN IF res.status = 404
        THEN /\ spaces' = res.spaces
             /\ Respond(r, 404, NoItem)
             /\ UNCHANGED <<reqs, nmut>>
        ELSE /\ CanSuspend
             /\ spaces' = res.spaces
             /\ nmut' = nmut + 1
             /\ reqs' = reqs \cup {[r EXCEPT !.pc = "delete", !.seq = nmut + 1]}
             /\ UNCHANGED lastResp
  /\ UNCHANGED <<cursors, itemIdCounter, hubVars, clientIdCounter, db, now, lastEvent, clientVars>>

DeleteAfterDbDelete(r, ok) ==
  /\ r.op = "deleteItem" /\ r.pc = "delete"
  /\ Publish(r.slug, Event("item:deleted", NoItem, r.id, NoCursor, r.seq))
  /\ reqs' = reqs \ {r}
  /\ Respond(After(r, ok), 200, NoItem)
  /\ UNCHANGED <<storeVars, clientIdCounter, db, now, nreq, limit, nmut, clientVars>>

\* ---- DELETE /:slug
resetResult(sp, slug, t) ==
  IF slug \in DOMAIN sp THEN [sp EXCEPT ![slug].items = <<>>, ![slug].updatedAt = t] ELSE sp

ResetStart(slug) ==
  /\ Accepting /\ CanSuspend
  /\ nreq' = nreq + 1
  /\ spaces' = resetResult(spaces, slug, now)
  /\ nmut' = nmut + 1
  /\ reqs' = reqs \cup {[NewReq("reset", slug, UndefStr) EXCEPT !.pc = "findUnique",
                                                               !.seq = nmut + 1]}
  /\ UNCHANGED <<cursors, itemIdCounter, hubVars, clientIdCounter, db, now, lastEvent,
                 lastResp, clientVars>>

ResetFinish(r, q) ==
  /\ Publish(q.slug, Event("space:reset", NoItem, UndefStr, NoCursor, q.seq))
  /\ reqs' = reqs \ {r}
  /\ Respond(q, 200, NoItem)

ResetAfterFindUnique(r, ok) ==
  /\ r.op = "reset" /\ r.pc = "findUnique"
  /\ IF ~ok
     THEN /\ reqs' = reqs \ {r}
          /\ Respond(After(r, ok), 500, NoItem)
          /\ UNCHANGED <<hubVars, lastEvent>>
     ELSE IF db[r.slug] # "none"
     THEN /\ reqs' = (reqs \ {r}) \cup {[r EXCEPT !.pc = "deleteMany"]}
          /\ UNCHANGED <<hubVars, lastEvent, lastResp>>
     ELSE ResetFinish(r, r)
  /\ UNCHANGED <<storeVars, clientIdCounter, db, now, nreq, limit, nmut, clientVars>>

ResetAfterDeleteMany(r, ok) ==
  /\ r.op = "reset" /\ r.pc = "deleteMany"
  /\ ResetFinish(r, After(r, ok))
  /\ UNCHANGED <<storeVars, clientIdCounter, db, now, nreq, limit, nmut, clientVars>>

\* ---- GET /:slug
GetSpaceStart(slug) ==
  /\ Accepting /\ CanSuspend
  /\ nreq' = nreq + 1
  /\ reqs' = reqs \cup {[NewReq("getSpace", slug, UndefStr) EXCEPT !.pc = "findUnique"]}
  /\ UNCHANGED <<storeVars, hubVars, clientIdCounter, db, now, nmut, lastEvent, lastResp,
                 clientVars>>

\* the blocked check, then getOrCreateSpace
GetSpaceAfterFindUnique(r, ok) ==
  /\ r.op = "getSpace" /\ r.pc = "findUnique"
  /\ IF ~ok
     THEN /\ reqs' = reqs \ {r}
          /\ Respond(After(r, ok), 500, NoItem)
          /\ UNCHANGED spaces
     ELSE IF db[r.slug] = "blocked"
     THEN /\ reqs' = reqs \ {r}
          /\ Respond(r, 403, NoItem)
          /\ UNCHANGED spaces
     ELSE LET g == getOrCreateSpace(spaces, r.slug, now)
          IN /\ spaces' = g.spaces
             /\ IF ~g.created
                THEN /\ reqs' = reqs \ {r}
                     /\ Respond(r, 200, NoItem)
                ELSE /\ reqs' = (reqs \ {r}) \cup {[r EXCEPT !.pc = "upsert"]}
                     /\ UNCHANGED lastResp
  /\ UNCHANGED <<cursors, itemIdCounter, hubVars, clientIdCounter, db, now, nreq, limit, nmut,
                 lastEvent, clientVars>>

GetSpaceAfterUpsert(r, ok) ==
  /\ r.op = "getSpace" /\ r.pc = "upsert"
  /\ db' = upsert(db, r.slug, ok)
  /\ reqs' = reqs \ {r}
  /\ Respond(After(r, ok), 200, NoItem)
  /\ UNCHANGED <<storeVars, hubVars, clientIdCounter, now, nreq, limit, nmut, lastEvent,
                 clientVars>>

\* ---- POST /:slug/cursors
CursorsOf(cur, slug) == IF slug \in DOMAIN cur THEN cur[slug] ELSE EmptyMap

\* a cursor update that looks for the entry after it has set it
CursorApplyLookAfterSet(r, q) ==
  LET c == q.cursor
      spaceCursors == (c.clientId :> c) @@ CursorsOf(cursors, q.slug)
      isNewCursor == c.clientId \notin DOMAIN spaceCursors
  IN /\ cursors' = (q.slug :> spaceCursors) @@ cursors
     /\ nmut' = nmut + 1
     /\ Publish(q.slug, Event(IF isNewCursor THEN "cursor:join" ELSE "cursor:move",
                              NoItem, UndefStr, c, nmut + 1))
     /\ reqs' = reqs \ {r}
     /\ Respond(q, 200, NoItem)

CursorApply(r, q) ==
  LET c == q.cursor
      spaceCursors == CursorsOf(cursors, q.slug)
      isNewCursor == c.clientId \notin DOMAIN spaceCursors
  IN /\ cursors' = (q.slug :> ((c.clientId :> c) @@ spaceCursors)) @@ cursors
     /\ nmut' = nmut + 1
     /\ Publish(q.slug, Event(IF isNewCursor THEN "cursor:join" ELSE "cursor:move",
                              NoItem, UndefStr, c, nmut + 1))
     /\ reqs' = reqs \ {r}
     /\ Respond(q, 200, NoItem)

CursorStart(slug, c) ==
  /\ Accepting
  /\ nreq' = nreq + 1
  /\ LET r == [NewReq("cursor", slug, UndefStr) EXCEPT !.cursor = c]
         g == getOrCreateSpace(spaces, slug, now)
     IN IF ~g.created
        THEN CursorApply(r, r) /\ spaces' = g.spaces
        ELSE /\ CanSuspend
             /\ spaces' = g.spaces
             /\ reqs' = reqs \cup {[r EXCEPT !.pc = "upsert"]}
             /\ UNCHANGED <<cursors, nmut, hubVars, lastEvent, lastResp>>
  /\ UNCHANGED <<itemIdCounter, clientIdCounter, db, now, clientVars>>

CursorAfterUpsert(r, ok) ==
  /\ r.op = "cursor" /\ r.pc = "upsert"
  /\ db' = upsert(db, r.slug, ok)
  /\ CursorApply(r, After(r, ok))
  /\ UNCHANGED <<spaces, itemIdCounter, clientIdCounter, now, nreq, limit, clientVars>>

\* ---- DELETE /:slug/cursors/:clientId
\* a removal that leaves the emptied cursor map in the table
RemoveCursorNoCleanup(slug, clientId) ==
  /\ Accepting
  /\ nreq' = nreq + 1
  /\ LET r == NewReq("removeCursor", slug, clientId)
     IN /\ IF slug \in DOMAIN cursors
           THEN LET spaceCursors == cursors[slug]
                    cursor == IF clientId \in DOMAIN spaceCursors THEN spaceCursors[clientId]
                              ELSE [NoCursor EXCEPT !.clientId = clientId]
                IN /\ Publish(slug, Event("cursor:leave", NoItem, UndefStr, cursor, nmut + 1))
                   /\ nmut' = nmut + 1
                   /\ cursors' = [cursors EXCEPT ![slug] = Drop(spaceCursors, clientId)]
           ELSE UNCHANGED <<cursors, nmut, hubVars, lastEvent>>
        /\ Respond(r, 200, NoItem)
  /\ UNCHANGED <<spaces, itemIdCounter, clientIdCounter, db, now, reqs, clientVars>>

RemoveCursor(slug, clientId) ==
  /\ Accepting
  /\ nreq' = nreq + 1
  /\ LET r == NewReq("removeCursor", slug, clientId)
     IN /\ IF slug \in DOMAIN cursors
           THEN LET spaceCursors == cursors[slug]
                    cursor == IF clientId \in DOMAIN spaceCursors THEN spaceCursors[clientId]
                              ELSE [NoCursor EXCEPT !.clientId = clientId]
                    rest == Drop(spaceCursors, clientId)
                IN /\ Publish(slug, Event("cursor:leave", NoItem, UndefStr, cursor, nmut + 1))
                   /\ nmut' = nmut + 1
                   /\ cursors' = IF DOMAIN rest = {} THEN Drop(cursors, slug)
                                 ELSE [cursors EXCEPT ![slug] = rest]
           ELSE UNCHANGED <<cursors, nmut, hubVars, lastEvent>>
        /\ Respond(r, 200, NoItem)
  /\ UNCHANGED <<spaces, itemIdCounter, clientIdCounter, db, now, reqs, clientVars>>

\* ---- GET /:slug/events
\* the stream's start(controller): subscribe, then the handshake frame
\* a stream start that registers the subscriber and sends no handshake
OpenStreamNoHandshake(r, q) ==
  LET id == clientIdCounter + 1
  IN /\ clientIdCounter' = id
     /\ clients' = subscribe(clients, q.slug, id)
     /\ streams' = (id :> NewStream(q.slug)) @@ streams
     /\ reqs' = reqs \ {r}
     /\ Respond(q, 200, NoItem)

OpenStream(r, q) ==
  LET id == clientIdCounter + 1
  IN /\ clientIdCounter' = id
     /\ clients' = subscribe(clients, q.slug, id)
     /\ streams' = enqueue((id :> NewStream(q.slug)) @@ streams, id, Connected(id))
     /\ reqs' = reqs \ {r}
     /\ Respond(q, 200, NoItem)

EventsStart(slug) ==
  /\ Accepting
  /\ nreq' = nreq + 1
  /\ LET r == NewReq("events", slug, UndefStr)
         g == getOrCreateSpace(spaces, slug, now)
     IN IF ~g.created
        THEN OpenStream(r, r) /\ spaces' = g.spaces
        ELSE /\ CanSuspend
             /\ spaces' = g.spaces
             /\ reqs' = reqs \cup {[r EXCEPT !.pc = "upsert"]}
             /\ UNCHANGED <<hubVars, clientIdCounter, lastResp>>
  /\ UNCHANGED <<cursors, itemIdCounter, db, now, nmut, lastEvent, clientVars>>

EventsAfterUpsert(r, ok) ==
  /\ r.op = "events" /\ r.pc = "upsert"
  /\ db' = upsert(db, r.slug, ok)
  /\ OpenStream(r, After(r, ok))
  /\ UNCHANGED <<storeVars, now, nreq, limit, nmut, lastEvent, clientVars>>

\* a cancel() that closes the stream and leaves the subscriber registered
CancelStreamNoUnsubscribe(id) ==
  /\ id \in DOMAIN streams /\ streams[id].state = "readable"
  /\ streams' = [streams EXCEPT ![id].state = "closed"]
  /\ UNCHANGED <<storeVars, clients, clientIdCounter, db, now, reqs, nreq, limit, nmut, lastEvent,
                 lastResp, clientVars>>

\* a cancel() that also forgets the cursors of the stream's space
CancelStreamDropCursors(id) ==
  /\ id \in DOMAIN streams /\ streams[id].state = "readable"
  /\ clients' = unsubscribe(clients, streams[id].slug, id)
  /\ streams' = [streams EXCEPT ![id].state = "closed"]
  /\ cursors' = IF streams[id].slug \in DOMAIN cursors THEN Drop(cursors, streams[id].slug)
                ELSE cursors
  /\ UNCHANGED <<spaces, itemIdCounter, clientIdCounter, db, now, reqs, nreq, limit, nmut,
                 lastEvent, lastResp, clientVars>>

\* the stream's cancel(): the consumer went away
CancelStream(id) ==
  /\ id \in DOMAIN streams /\ streams[id].state = "readable"
  /\ clients' = unsubscribe(clients, streams[id].slug, id)
  /\ streams' = [streams EXCEPT ![id].state = "closed"]
  /\ UNCHANGED <<storeVars, clientIdCounter, db, now, reqs, nreq, limit, nmut, lastEvent, lastResp,
                 clientVars>>

\* ---- the environment
\* a controller stops accepting frames without cancel() having run
SinkFails(id) ==
  /\ id \in DOMAIN streams /\ streams[id].state = "readable"
  /\ streams' = [streams EXCEPT ![id].state = "errored"]
  /\ UNCHANGED <<storeVars, clients, clientIdCounter, db, now, reqs, nreq, limit, nmut, lastEvent,
                 lastResp, clientVars>>

\* POST /api/admin/spaces/:slug/block: the row of an existing space is updated
AdminBlock(slug, blocked) ==
  /\ Accepting
  /\ db[slug] # "none"
  /\ nreq' = nreq + 1
  /\ db' = [db EXCEPT ![slug] = IF blocked THEN "blocked" ELSE "ok"]
  /\ UNCHANGED <<storeVars, hubVars, clientIdCounter, now, reqs, nmut, lastEvent, lastResp,
                 clientVars>>

Tick ==
  /\ now < MaxTime
  /\ now' = now + 1
  /\ UNCHANGED <<storeVars, hubVars, clientIdCounter, db, reqs, nreq, limit, nmut, lastEvent,
                 lastResp, clientVars>>

\* ------------------------------------------------------------------ the server
Init ==
  /\ spaces = EmptyMap
  /\ cursors = EmptyMap
  /\ itemIdCounter = 0
  /\ clients = EmptyMap
  /\ clientIdCounter = 0
  /\ streams = EmptyMap
  /\ db = [s \in Slugs |-> "none"]
  /\ now = 0
  /\ reqs = {}
  /\ nreq = 0
  /\ limit = MaxReqs
  /\ nmut = 0
  /\ lastEvent = NoEvent
  /\ lastResp = NoResp
  /\ ClientIdle

Resume(r, ok) ==
  \/ CreateAfterUpsert(r, ok)
  \/ CreateAfterFindUnique(r, ok)
  \/ CreateAfterDbCreate(r, ok)
  \/ DeleteAfterDbDelete(r, ok)
  \/ ResetAfterFindUnique(r, ok)
  \/ ResetAfterDeleteMany(r, ok)
  \/ GetSpaceAfterFindUnique(r, ok)
  \/ GetSpaceAfterUpsert(r, ok)
  \/ CursorAfterUpsert(r, ok)
  \/ EventsAfterUpsert(r, ok)

Next ==
  \/ \E slug \in Slugs :
       \/ GetSpaceStart(slug)
       \/ \E body \in Drafts : CreateItemStart(slug, body)
       \/ \E itemId \in KnownItemIds, updates \in Patches : UpdateItem(slug, itemId, updates)
       \/ \E itemId \in KnownItemIds : DeleteItemStart(slug, itemId)
       \/ ResetStart(slug)
       \/ \E c \in CursorInputs : CursorStart(slug, c)
       \/ \E clientId \in CursorClientIds : RemoveCursor(slug, clientId)
       \/ EventsStart(slug)
       \/ \E blocked \in BOOLEAN : AdminBlock(slug, blocked)
  \/ \E r \in reqs, ok \in BOOLEAN : Resume(r, ok)
  \/ \E id \in DOMAIN streams : CancelStream(id) \/ SinkFails(id)
  \/ Tick

Spec == Init /\ [][Next]_vars

\* ------------------------------------------------------------------ the item handlers
\* A state the server reaches from Init at clock 0: POST /s1/items {id: "a"} and
\* POST /s1/items {} (both mirrored), POST /s1/cursors for c1, GET /s1/events.
\* The observers (nreq, nmut, lastEvent, lastResp) start afresh.
WarmItemA ==
  [oid |-> -1, id |-> "a", type |-> "sticky", x |-> 1, y |-> 1, color |-> "red",
   zIndex |-> 0, createdBy |-> "u1", createdAt |-> 0, updatedAt |-> 0]
WarmItemB == [WarmItemA EXCEPT !.oid = -2, !.id = generateItemId(1, 0)]

InitItems ==
  /\ spaces = ("s1" :> [items |-> <<WarmItemA, WarmItemB>>, createdAt |-> 0, updatedAt |-> 0])
  /\ cursors = ("s1" :> ("c1" :> [clientId |-> "c1", x |-> 1, y |-> 7, name |-> UndefStr,
                                  color |-> UndefStr]))
  /\ itemIdCounter = 1
  /\ clients = ("s1" :> <<1>>)
  /\ clientIdCounter = 1
  /\ streams = enqueue(1 :> NewStream("s1"), 1, Connected(1))
  /\ db = [s \in Slugs |-> IF s = "s1" THEN "ok" ELSE "none"]
  /\ now = 0
  /\ reqs = {}
  /\ nreq = 0
  /\ limit = MaxItemReqs
  /\ nmut = 0
  /\ lastEvent = NoEvent
  /\ lastResp = NoResp
  /\ ClientIdle

ResumeItems(r, ok) ==
  \/ CreateAfterFindUnique(r, ok)
  \/ CreateAfterDbCreate(r, ok)
  \/ DeleteAfterDbDelete(r, ok)
  \/ ResetAfterFindUnique(r, ok)
  \/ ResetAfterDeleteMany(r, ok)

NextItems ==
  \/ \E body \in Drafts : CreateItemStart("s1", body)
  \/ \E slug \in Slugs, itemId \in KnownItemIds, updates \in Patches :
       UpdateItem(slug, itemId, updates)
  \/ \E slug \in Slugs, itemId \in KnownItemIds : DeleteItemStart(slug, itemId)
  \/ ResetStart("s1")
  \/ \E blocked \in BOOLEAN : AdminBlock("s1", blocked)
  \/ \E r \in reqs, ok \in BOOLEAN : ResumeItems(r, ok)
  \/ \E id \in DOMAIN streams : CancelStream(id) \/ SinkFails(id)
  \/ Tick

SpecItems == InitItems /\ [][NextItems]_vars

\* the same handlers from the same state, for the claims about one operation
InitStore ==
  /\ spaces = ("s1" :> [items |-> <<WarmItemA, WarmItemB>>, createdAt |-> 0, updatedAt |-> 0])
  /\ cursors = ("s1" :> ("c1" :> [clientId |-> "c1", x |-> 1, y |-> 7, name |-> UndefStr,
                                  color |-> UndefStr]))
  /\ itemIdCounter = 1
  /\ clients = ("s1" :> <<1>>)
  /\ clientIdCounter = 1
  /\ streams = enqueue(1 :> NewStream("s1"), 1, Connected(1))
  /\ db = [s \in Slugs |-> IF s = "s1" THEN "ok" ELSE "none"]
  /\ now = 0
  /\ reqs = {}
  /\ nreq = 0
  /\ limit = MaxStoreReqs
  /\ nmut = 0
  /\ lastEvent = NoEvent
  /\ lastResp = NoResp
  /\ ClientIdle

SpecStore == InitStore /\ [][NextItems]_vars

\* ------------------------------------------------------------------ spaces and presence
\* the handlers that call getOrCreateSpace, on one slug, and the cursor removal, from the
\* empty server
InitPresence ==
  /\ spaces = EmptyMap
  /\ cursors = EmptyMap
  /\ itemIdCounter = 0
  /\ clients = EmptyMap
  /\ clientIdCounter = 0
  /\ streams = EmptyMap
  /\ db = [s \in Slugs |-> "none"]
  /\ now = 0
  /\ reqs = {}
  /\ nreq = 0
  /\ limit = MaxPresenceReqs
  /\ nmut = 0
  /\ lastEvent = NoEvent
  /\ lastResp = NoResp
  /\ ClientIdle

ResumePresence(r, ok) ==
  \/ CreateAfterUpsert(r, ok)
  \/ CreateAfterFindUnique(r, ok)
  \/ CreateAfterDbCreate(r, ok)
  \/ GetSpaceAfterFindUnique(r, ok)
  \/ GetSpaceAfterUpsert(r, ok)
  \/ CursorAfterUpsert(r, ok)
  \/ EventsAfterUpsert(r, ok)

NextPresence ==
  \/ GetSpaceStart("s1")
  \/ \E body \in Drafts : CreateItemStart("s1", body)
  \/ \E c \in CursorInputs : CursorStart("s1", c)
  \/ \E slug \in Slugs, clientId \in CursorClientIds : RemoveCursor(slug, clientId)
  \/ EventsStart("s1")
  \/ \E r \in reqs, ok \in BOOLEAN : ResumePresence(r, ok)
  \/ \E id \in DOMAIN streams : CancelStream(id) \/ SinkFails(id)
  \/ Tick

SpecPresence == InitPresence /\ [][NextPresence]_vars

\* ------------------------------------------------------------------ two subscribers
\* the item handlers with two open streams on the space
InitFanout ==
  /\ spaces = ("s1" :> [items |-> <<WarmItemA, WarmItemB>>, createdAt |-> 0, updatedAt |-> 0])
  /\ cursors = EmptyMap
  /\ itemIdCounter = 1
  /\ clients = ("s1" :> <<1, 2>>)
  /\ clientIdCounter = 2
  /\ streams = enqueue(enqueue(1 :> NewStream("s1") @@ 2 :> NewStream("s1"), 1, Connected(1)),
                       2, Connected(2))
  /\ db = [s \in Slugs |-> IF s = "s1" THEN "ok" ELSE "none"]
  /\ now = 0
  /\ reqs = {}
  /\ nreq = 0
  /\ limit = MaxFanoutReqs
  /\ nmut = 0
  /\ lastEvent = NoEvent
  /\ lastResp = NoResp
  /\ ClientIdle

NextFanout ==
  \/ \E body \in Drafts : CreateItemStart("s1", body)
  \/ \E itemId \in KnownItemIds, updates \in Patches : UpdateItem("s1", itemId, updates)
  \/ \E itemId \in KnownItemIds : DeleteItemStart("s1", itemId)
  \/ ResetStart("s1")
  \/ \E r \in reqs, ok \in BOOLEAN : ResumeItems(r, ok)
  \/ \E id \in DOMAIN streams : SinkFails(id)

SpecFanout == InitFanout /\ [][NextFanout]_vars

\* ------------------------------------------------------------------ items and cursors
\* the item, reset and cursor handlers of a space that has items, a cursor and a subscriber
InitCursors ==
  /\ spaces = ("s1" :> [items |-> <<WarmItemA, WarmItemB>>, createdAt |-> 0, updatedAt |-> 0])
  /\ cursors = ("s1" :> ("c1" :> [clientId |-> "c1", x |-> 1, y |-> 7, name |-> UndefStr,
                                  color |-> UndefStr]))
  /\ itemIdCounter = 1
  /\ clients = ("s1" :> <<1>>)
  /\ clientIdCounter = 1
  /\ streams = enqueue(1 :> NewStream("s1"), 1, Connected(1))
  /\ db = [s \in Slugs |-> IF s = "s1" THEN "ok" ELSE "none"]
  /\ now = 0
  /\ reqs = {}
  /\ nreq = 0
  /\ limit = MaxCursorReqs
  /\ nmut = 0
  /\ lastEvent = NoEvent
  /\ lastResp = NoResp
  /\ ClientIdle

NextCursors ==
  \/ \E body \in Drafts : CreateItemStart("s1", body)
  \/ \E itemId \in KnownItemIds, updates \in Patches : UpdateItem("s1", itemId, updates)
  \/ \E itemId \in KnownItemIds : DeleteItemStart("s1", itemId)
  \/ ResetStart("s1")
  \/ \E c \in CursorInputs : CursorStart("s1", c)
  \/ \E clientId \in CursorClientIds : RemoveCursor("s1", clientId)
  \/ \E r \in reqs, ok \in BOOLEAN : ResumeItems(r, ok)
  \/ \E id \in DOMAIN streams : CancelStream(id) \/ SinkFails(id)

SpecCursors == InitCursors /\ [][NextCursors]_vars

\* ------------------------------------------------------------------ two spaces
\* both spaces are mirrored and hold an item, a cursor and a subscriber; the requests go
\* to s1 (an item id or a clientId of s2 among them), s2 is the other space
InitIsolation ==
  /\ spaces = ("s1" :> [items |-> <<WarmItemA>>, createdAt |-> 0, updatedAt |-> 0])
               @@ ("s2" :> [items |-> <<WarmItemB>>, createdAt |-> 0, updatedAt |-> 0])
  /\ cursors = ("s1" :> ("c1" :> [NoCursor EXCEPT !.clientId = "c1", !.x = 1, !.y = 7]))
                @@ ("s2" :> ("c2" :> [NoCursor EXCEPT !.clientId = "c2", !.x = 1, !.y = 7]))
  /\ itemIdCounter = 1
  /\ clients = ("s1" :> <<1>>) @@ ("s2" :> <<2>>)
  /\ clientIdCounter = 2
  /\ streams = enqueue(enqueue((1 :> NewStream("s1")) @@ (2 :> NewStream("s2")),
                               1, Connected(1)), 2, Connected(2))
  /\ db = [s \in Slugs |-> "ok"]
  /\ now = 0
  /\ reqs = {}
  /\ nreq = 0
  /\ limit = MaxIsolationReqs
  /\ nmut = 0
  /\ lastEvent = NoEvent
  /\ lastResp = NoResp
  /\ ClientIdle

NextIsolation ==
  \/ \E body \in Drafts : CreateItemStart("s1", body)
  \/ \E itemId \in KnownItemIds, updates \in Patches : UpdateItem("s1", itemId, updates)
  \/ \E itemId \in KnownItemIds : DeleteItemStart("s1", itemId)
  \/ ResetStart("s1")
  \/ \E c \in CursorInputs : CursorStart("s1", c)
  \/ \E clientId \in CursorClientIds : RemoveCursor("s1", clientId)
  \/ EventsStart("s1")
  \/ \E r \in reqs, ok \in BOOLEAN : ResumeItems(r, ok)
  \/ \E id \in DOMAIN streams : CancelStream(id) \/ SinkFails(id)

SpecIsolation == InitIsolation /\ [][NextIsolation]_vars

\* ------------------------------------------------------------------ the hub alone
\* sse.ts called directly, with any excludeClientId; a stream starts with no frame
HubCall(op, slug, sub) ==
  [NoResp EXCEPT !.rid = nreq + 1, !.op = op, !.slug = slug, !.sub = sub]

HubSubscribe(slug) ==
  LET id == clientIdCounter + 1
  IN /\ Accepting
     /\ nreq' = nreq + 1
     /\ clientIdCounter' = id
     /\ clients' = subscribe(clients, slug, id)
     /\ streams' = (id :> NewStream(slug)) @@ streams
     /\ lastResp' = HubCall("subscribe", slug, id)
     /\ UNCHANGED <<storeVars, db, now, reqs, nmut, lastEvent, clientVars>>

HubUnsubscribe(slug, id) ==
  /\ Accepting
  /\ nreq' = nreq + 1
  /\ clients' = unsubscribe(clients, slug, id)
  /\ lastResp' = HubCall("unsubscribe", slug, id)
  /\ UNCHANGED <<storeVars, clientIdCounter, streams, db, now, reqs, nmut, lastEvent, clientVars>>

HubBroadcast(slug, exclude) ==
  LET event == Event("space:reset", NoItem, UndefStr, NoCursor, nreq + 1)
      b == broadcast(clients, streams, slug, event, exclude)
  IN /\ Accepting
     /\ nreq' = nreq + 1
     /\ clients' = b.clients
     /\ streams' = b.streams
     /\ lastEvent' = [slug |-> slug, event |-> event]
     /\ lastResp' = HubCall("broadcast", slug, exclude)
     /\ UNCHANGED <<storeVars, clientIdCounter, db, now, reqs, nmut, clientVars>>

InitHub ==
  /\ spaces = EmptyMap
  /\ cursors = EmptyMap
  /\ itemIdCounter = 0
  /\ clients = EmptyMap
  /\ clientIdCounter = 0
  /\ streams = EmptyMap
  /\ db = [s \in Slugs |-> "none"]
  /\ now = 0
  /\ reqs = {}
  /\ nreq = 0
  /\ limit = MaxHubCalls
  /\ nmut = 0
  /\ lastEvent = NoEvent
  /\ lastResp = NoResp
  /\ ClientIdle

NextHub ==
  \/ \E slug \in Slugs : HubSubscribe(slug)
  \/ \E slug \in Slugs, id \in 1..(clientIdCounter + 1) : HubUnsubscribe(slug, id)
  \/ \E slug \in Slugs, exclude \in 0..(clientIdCounter + 1) : HubBroadcast(slug, exclude)
  \/ \E id \in DOMAIN streams : SinkFails(id)

SpecHub == InitHub /\ [][NextHub]_vars

\* ------------------------------------------------------------------ useCanvas
\* the hook of one client; the server is its environment: it answers the client's requests
\* and sends the events of other clients
DebounceMs == 100
StaleMs == 500
DeleteGuardMs == 5000
ClockSteps == {50, 450, 5000}
Times ==
  {1 + 50 * k :
     k \in 0..(100 * (MaxClientTicks + MaxStaleTicks + MaxDebounceTicks + MaxDeleteTicks))}

\* `client-${Date.now()}-${Math.random()...}`: the clientId of this hook
MyClientId == "c2"

\* `temp-${Date.now()}` and id.startsWith("temp-")
TempId(t) == "temp-" \o ToString(t)
TempIds == {TempId(t) : t \in Times}
startsWithTemp(id) == id \in TempIds

NoPatch == [x |-> UndefNum, y |-> UndefNum, color |-> UndefStr, zIndex |-> UndefNum]
ClientPatches ==
  {[NoPatch EXCEPT !.x = 110], [NoPatch EXCEPT !.x = 120], [NoPatch EXCEPT !.y = 2],
   [NoPatch EXCEPT !.color = "blue"]}

\* the request createItem builds: it carries no id
Requests ==
  {[id |-> UndefStr, type |-> "sticky", x |-> 1, y |-> 1, color |-> "red", createdBy |-> "u1"]}

\* { ...a, ...updates }
Spread(a, updates) ==
  [a EXCEPT
     !.x = IF updates.x # UndefNum THEN updates.x ELSE @,
     !.y = IF updates.y # UndefNum THEN updates.y ELSE @,
     !.color = IF updates.color # UndefStr THEN updates.color ELSE @,
     !.zIndex = IF updates.zIndex # UndefNum THEN updates.zIndex ELSE @]

\* "x" in updates || "y" in updates
isPositionUpdate(updates) == updates.x # UndefNum \/ updates.y # UndefNum

\* prev.map(i => i.id === id ? item : i), prev.filter(i => i.id !== id), prev.some(...)
ReplaceItem(prev, id, item) ==
  [k \in DOMAIN prev |-> IF prev[k].id = id THEN item ELSE prev[k]]
\* prev.map((i) => (i.id === itemId ? { ...i, ...updates } : i))
MergeItem(prev, id, updates) ==
  [k \in DOMAIN prev |-> IF prev[k].id = id THEN Spread(prev[k], updates) ELSE prev[k]]
FilterId(prev, id) == SelectSeq(prev, LAMBDA i : i.id # id)
SomeId(prev, id) == \E k \in DOMAIN prev : prev[k].id = id
LocalIds == {items[k].id : k \in DOMAIN items}

NoCall ==
  [n |-> 0, kind |-> "", id |-> "", body |-> NoDraft, updates |-> NoPatch,
   deletedItem |-> NoItem, before |-> <<>>, sid |-> UndefStr]
Step(op, n, id, ok) == [op |-> op, n |-> n, id |-> id, ok |-> ok]
Ticket == used.tickets + 1
UseOp == [used EXCEPT !.ops = @ + 1, !.tickets = @ + 1]

\* ---- the SSE callback
\* an item:created event is dropped when its id is in myCreatedItems (and the mark removed)
\* or in myDeletedItems or in the list already
onItemCreated(item) ==
  IF item.id \in myCreatedItems
  THEN /\ myCreatedItems' = myCreatedItems \ {item.id}
       /\ items' = items
  ELSE IF item.id \in myDeletedItems
  THEN UNCHANGED <<items, myCreatedItems>>
  ELSE /\ items' = IF SomeId(items, item.id) THEN items ELSE Append(items, item)
       /\ UNCHANGED myCreatedItems

\* lastUpdate && Date.now() - lastUpdate < 500
isRecentInclusive(id, t) ==
  id \in DOMAIN recentUpdates /\ recentUpdates[id] # 0 /\ t - recentUpdates[id] <= StaleMs
isRecent(id, t) ==
  id \in DOMAIN recentUpdates /\ recentUpdates[id] # 0 /\ t - recentUpdates[id] < StaleMs

\* the two early returns of the item:updated case
skipsItemUpdated(item) == item.id \in myDeletedItems \/ isRecent(item.id, clock)

onItemUpdated(item) ==
  /\ items' = IF skipsItemUpdated(item) THEN items
              ELSE ReplaceItem(items, item.id, item)
  /\ UNCHANGED myCreatedItems

onItemDeleted(itemId) == items' = FilterId(items, itemId) /\ UNCHANGED myCreatedItems
onSpaceReset == items' = <<>> /\ UNCHANGED myCreatedItems

onEvent(e) ==
  CASE e.type = "item:created" -> onItemCreated(e.item)
    [] e.type = "item:updated" -> onItemUpdated(e.item)
    [] e.type = "item:deleted" -> onItemDeleted(e.itemId)
    [] e.type = "space:reset" -> onSpaceReset
    [] OTHER -> UNCHANGED <<items, myCreatedItems>>

\* the ids the server has given out, and the events other clients can cause
ServerIds == {WarmItemA.id} \cup {generateItemId(itemIdCounter + k, now) : k \in 1..used.ids}
FreshId == generateItemId(itemIdCounter + used.ids + 1, now)
RemoteVersion(id) == [WarmItemA EXCEPT !.oid = 0, !.id = id, !.x = 9, !.color = "green"]
\* (a create of another client may carry an id of its own choice: body.id || generateItemId())
RemoteEvents ==
  {Event("item:created", BuildItem(request, FreshId, 0, now), UndefStr, NoCursor, 0) :
     request \in Requests}
    \cup {Event("item:created", RemoteVersion(id), UndefStr, NoCursor, 0) : id \in ServerIds}
    \cup {Event("item:updated", RemoteVersion(id), UndefStr, NoCursor, 0) : id \in ServerIds}
    \cup {Event("item:deleted", NoItem, id, NoCursor, 0) : id \in ServerIds}
    \cup {Event("space:reset", NoItem, UndefStr, NoCursor, 0)}

\* the event gets past the early returns of its case
reachesSetItems(e) ==
  CASE e.type = "item:created" ->
         e.item.id \notin myCreatedItems /\ e.item.id \notin myDeletedItems
    [] e.type = "item:updated" -> ~skipsItemUpdated(e.item)
    [] OTHER -> TRUE

\* the echo of one of this client's creates arrives
EchoArrives(item) ==
  /\ item \in echoes
  /\ echoes' = echoes \ {item}
  /\ onEvent(Event("item:created", item, UndefStr, NoCursor, 0))
  /\ lastStep' = Step("item:created", 0, item.id,
                     reachesSetItems(Event("item:created", item, UndefStr, NoCursor, 0)))
  /\ UNCHANGED sessionVars
  /\ UNCHANGED <<serverVars, myDeletedItems, recentUpdates, pendingUpdates, timeouts, calls,
                 clock, used, guards>>

\* an event of another client arrives; a remote create has a new id
RemoteEvent(e) ==
  /\ used.events < used.maxEvents
  /\ onEvent(e)
  /\ used' = [used EXCEPT !.events = @ + 1,
                          !.ids = IF e.type = "item:created" /\ e.item.id = FreshId
                                  THEN @ + 1 ELSE @]
  /\ lastStep' = Step(e.type, 0, IF e.type = "item:deleted" THEN e.itemId ELSE e.item.id,
                     reachesSetItems(e))
  /\ UNCHANGED sessionVars
  /\ UNCHANGED <<serverVars, myDeletedItems, recentUpdates, pendingUpdates, timeouts, calls,
                 echoes, clock, guards>>

\* ---- createItem
createItem(request) ==
  /\ used.ops < used.maxOps
  /\ LET tempId == TempId(clock)
         tempItem == [oid |-> 0, id |-> tempId, type |-> request.type, x |-> request.x,
                      y |-> request.y, color |-> request.color, zIndex |-> 1,
                      createdBy |-> request.createdBy, createdAt |-> clock,
                      updatedAt |-> clock]
     IN /\ items' = Append(items, tempItem)
        /\ calls' = calls \cup {[NoCall EXCEPT !.n = Ticket, !.kind = "create", !.id = tempId,
                                               !.body = request, !.before = items]}
        /\ lastStep' = Step("createItem", Ticket, tempId, TRUE)
  /\ used' = UseOp
  /\ UNCHANGED sessionVars
  /\ UNCHANGED <<serverVars, myCreatedItems, myDeletedItems, recentUpdates, pendingUpdates,
                 timeouts, echoes, clock, guards>>

\* the server stores the item under a new id and broadcasts item:created: the response
\* and the echo are now both on their way
ServerCreates(c) ==
  /\ c \in calls /\ c.kind = "create" /\ c.sid = UndefStr
  /\ calls' = (calls \ {c}) \cup {[c EXCEPT !.sid = FreshId]}
  /\ echoes' = echoes \cup {BuildItem(c.body, FreshId, 0, now)}
  /\ used' = [used EXCEPT !.ids = @ + 1]
  /\ UNCHANGED sessionVars
  /\ UNCHANGED <<serverVars, items, myCreatedItems, myDeletedItems, recentUpdates,
                 pendingUpdates, timeouts, clock, lastStep, guards>>

\* await spaceApi.createItem resolves: the id is marked, the temp item is replaced
createResolved(c) ==
  /\ c \in calls /\ c.kind = "create" /\ c.sid # UndefStr
  /\ LET newItem == BuildItem(c.body, c.sid, 0, now)
     IN /\ myCreatedItems' = myCreatedItems \cup {newItem.id}
        /\ items' = ReplaceItem(items, c.id, newItem)
  /\ calls' = calls \ {c}
  /\ lastStep' = Step("createResolved", c.n, c.sid, TRUE)
  /\ UNCHANGED sessionVars
  /\ UNCHANGED <<serverVars, myDeletedItems, recentUpdates, pendingUpdates, timeouts, echoes,
                 clock, used, guards>>

\* await spaceApi.createItem rejects: every temp item is removed
createRejected(c) ==
  /\ c \in calls /\ c.kind = "create" /\ c.sid = UndefStr
  /\ items' = SelectSeq(items, LAMBDA i : ~startsWithTemp(i.id))
  /\ calls' = calls \ {c}
  /\ lastStep' = Step("createRejected", c.n, c.id, FALSE)
  /\ UNCHANGED sessionVars
  /\ UNCHANGED <<serverVars, myCreatedItems, myDeletedItems, recentUpdates, pendingUpdates,
                 timeouts, echoes, clock, used, guards>>

\* ---- updateItem
\* { ...existing.updates, ...updates } with the older values on top
mergePendingOldFirst(existing, updates) == Spread(updates, existing)
\* { ...existing.updates, ...updates }
mergePending(existing, updates) == Spread(existing, updates)

NoTimeout == [n |-> 0, kind |-> "", id |-> "", updates |-> NoPatch, due |-> 0]

\* the item must be on the canvas to be edited; issued and before are bookkeeping: the
\* patches since the timer was first set, and the list before the first of them
updateItem(itemId, updates) ==
  /\ used.ops < used.maxOps
  /\ itemId \in LocalIds
  /\ items' = MergeItem(items, itemId, updates)
  /\ IF startsWithTemp(itemId)
     THEN UNCHANGED <<recentUpdates, pendingUpdates, timeouts, calls>>
     ELSE /\ recentUpdates' = (itemId :> clock) @@ recentUpdates
          /\ IF isPositionUpdate(updates)
             THEN LET existing == itemId \in DOMAIN pendingUpdates
                      merged == IF existing
                                THEN mergePending(pendingUpdates[itemId].updates, updates)
                                ELSE updates
                      cleared == IF existing
                                 THEN {t \in timeouts : t.n # pendingUpdates[itemId].timeout}
                                 ELSE timeouts
                  IN /\ timeouts' = cleared \cup
                          {[NoTimeout EXCEPT !.n = Ticket, !.kind = "debounce", !.id = itemId,
                                             !.updates = merged, !.due = clock + DebounceMs]}
                     /\ pendingUpdates' =
                          (itemId :> [updates |-> merged, timeout |-> Ticket,
                                      issued |-> IF existing
                                                 THEN Append(pendingUpdates[itemId].issued, updates)
                                                 ELSE <<updates>>,
                                      before |-> IF existing THEN pendingUpdates[itemId].before
                                                 ELSE items])
                            @@ pendingUpdates
                     /\ UNCHANGED calls
             ELSE /\ calls' = calls \cup {[NoCall EXCEPT !.n = Ticket, !.kind = "update",
                                                         !.id = itemId, !.updates = updates,
                                                         !.before = items]}
                  /\ UNCHANGED <<pendingUpdates, timeouts>>
  /\ used' = UseOp
  /\ lastStep' = Step("updateItem", Ticket, itemId, TRUE)
  /\ UNCHANGED sessionVars
  /\ UNCHANGED <<serverVars, myCreatedItems, myDeletedItems, echoes, clock, guards>>

\* the debounce timer runs: the pending entry is deleted and the request is sent
debounceFires(t) ==
  /\ t \in timeouts /\ t.kind = "debounce" /\ t.due <= clock
  /\ timeouts' = timeouts \ {t}
  /\ pendingUpdates' = Drop(pendingUpdates, t.id)
  /\ calls' = calls \cup {[NoCall EXCEPT !.n = Ticket, !.kind = "update", !.id = t.id,
                                         !.updates = t.updates,
                                         !.before = IF t.id \in DOMAIN pendingUpdates
                                                    THEN pendingUpdates[t.id].before
                                                    ELSE items]}
  /\ used' = [used EXCEPT !.tickets = @ + 1]
  /\ lastStep' = Step("debounce", Ticket, t.id, TRUE)
  /\ UNCHANGED sessionVars
  /\ UNCHANGED <<serverVars, items, myCreatedItems, myDeletedItems, recentUpdates, echoes,
                 clock, guards>>

\* await spaceApi.updateItem resolves or rejects: the catch only logs
updateAnswered(c, ok) ==
  /\ c \in calls /\ c.kind = "update"
  /\ calls' = calls \ {c}
  /\ lastStep' = Step(IF ok THEN "updateResolved" ELSE "updateRejected", c.n, c.id, ok)
  /\ UNCHANGED sessionVars
  /\ UNCHANGED <<serverVars, items, myCreatedItems, myDeletedItems, recentUpdates,
                 pendingUpdates, timeouts, echoes, clock, used, guards>>

\* ---- deleteItem
NoGuard == [at |-> 0, rejected |-> FALSE, okAt |-> {}]
GuardOf(id) == IF id \in DOMAIN guards THEN guards[id] ELSE NoGuard

\* a delete that leaves the pending update and its timer alone
deleteItemKeepsPending(itemId) ==
  /\ used.ops < used.maxOps
  /\ itemId \in LocalIds
  /\ UNCHANGED <<timeouts, pendingUpdates>>
  /\ myDeletedItems' = myDeletedItems \cup {itemId}
  /\ items' = FilterId(items, itemId)
  /\ calls' = IF startsWithTemp(itemId) THEN calls
              ELSE calls \cup {[NoCall EXCEPT !.n = Ticket, !.kind = "delete", !.id = itemId,
                                              !.deletedItem = items[findIndex(items, itemId)],
                                              !.before = items]}
  /\ guards' = (itemId :> [GuardOf(itemId) EXCEPT !.at = clock, !.rejected = FALSE]) @@ guards
  /\ used' = UseOp
  /\ lastStep' = Step("deleteItem", Ticket, itemId, TRUE)
  /\ UNCHANGED sessionVars
  /\ UNCHANGED <<serverVars, myCreatedItems, recentUpdates, echoes, clock>>

\* the item must be on the canvas to be deleted
deleteItem(itemId) ==
  /\ used.ops < used.maxOps
  /\ itemId \in LocalIds
  /\ timeouts' = IF itemId \in DOMAIN pendingUpdates
                 THEN {t \in timeouts : t.n # pendingUpdates[itemId].timeout}
                 ELSE timeouts
  /\ pendingUpdates' = Drop(pendingUpdates, itemId)
  /\ myDeletedItems' = myDeletedItems \cup {itemId}
  /\ items' = FilterId(items, itemId)
  /\ calls' = IF startsWithTemp(itemId) THEN calls
              ELSE calls \cup {[NoCall EXCEPT !.n = Ticket, !.kind = "delete", !.id = itemId,
                                              !.deletedItem = items[findIndex(items, itemId)],
                                              !.before = items]}
  /\ guards' = (itemId :> [GuardOf(itemId) EXCEPT !.at = clock, !.rejected = FALSE]) @@ guards
  /\ used' = UseOp
  /\ lastStep' = Step("deleteItem", Ticket, itemId, TRUE)
  /\ UNCHANGED sessionVars
  /\ UNCHANGED <<serverVars, myCreatedItems, recentUpdates, echoes, clock>>

\* a success path that removes the mark at once
deleteResolvedUnmarks(c) ==
  /\ c \in calls /\ c.kind = "delete"
  /\ calls' = calls \ {c}
  /\ myDeletedItems' = myDeletedItems \ {c.id}
  /\ guards' = [guards EXCEPT ![c.id].okAt = @ \cup {clock}]
  /\ lastStep' = Step("deleteResolved", c.n, c.id, TRUE)
  /\ UNCHANGED sessionVars
  /\ UNCHANGED <<serverVars, items, myCreatedItems, recentUpdates, pendingUpdates, timeouts,
                 echoes, clock, used>>

\* await spaceApi.deleteItem resolves: the mark is removed 5 s later
deleteResolved(c) ==
  /\ c \in calls /\ c.kind = "delete"
  /\ calls' = calls \ {c}
  /\ timeouts' = timeouts \cup {[NoTimeout EXCEPT !.n = Ticket, !.kind = "guard", !.id = c.id,
                                                  !.due = clock + DeleteGuardMs]}
  /\ used' = [used EXCEPT !.tickets = @ + 1]
  /\ guards' = [guards EXCEPT ![c.id].okAt = @ \cup {clock}]
  /\ lastStep' = Step("deleteResolved", c.n, c.id, TRUE)
  /\ UNCHANGED sessionVars
  /\ UNCHANGED <<serverVars, items, myCreatedItems, myDeletedItems, recentUpdates,
                 pendingUpdates, echoes, clock>>

\* await spaceApi.deleteItem rejects: the mark is removed and the item appended
deleteRejected(c) ==
  /\ c \in calls /\ c.kind = "delete"
  /\ calls' = calls \ {c}
  /\ myDeletedItems' = myDeletedItems \ {c.id}
  /\ items' = Append(items, c.deletedItem)
  /\ guards' = [guards EXCEPT ![c.id].rejected = TRUE]
  /\ lastStep' = Step("deleteRejected", c.n, c.id, FALSE)
  /\ UNCHANGED sessionVars
  /\ UNCHANGED <<serverVars, myCreatedItems, recentUpdates, pendingUpdates, timeouts, echoes,
                 clock, used>>

\* the 5 s timer runs
guardExpires(t) ==
  /\ t \in timeouts /\ t.kind = "guard" /\ t.due <= clock
  /\ timeouts' = timeouts \ {t}
  /\ myDeletedItems' = myDeletedItems \ {t.id}
  /\ lastStep' = Step("guard", t.n, t.id, TRUE)
  /\ UNCHANGED sessionVars
  /\ UNCHANGED <<serverVars, items, myCreatedItems, recentUpdates, pendingUpdates, calls,
                 echoes, clock, used, guards>>

\* time passes at the client; a timer that is due runs before more time passes
Advance(d) ==
  /\ used.ticks < used.maxTicks
  /\ \A t \in timeouts : t.due > clock
  /\ clock' = clock + d
  /\ used' = [used EXCEPT !.ticks = @ + 1]
  /\ UNCHANGED sessionVars
  /\ UNCHANGED <<serverVars, items, myCreatedItems, myDeletedItems, recentUpdates,
                 pendingUpdates, timeouts, calls, echoes, lastStep, guards>>

\* the hook is mounted with the items of GET /:slug (the space holds one item)
ClientStart(ops, events, ticks) ==
  /\ spaces = ("s1" :> [items |-> <<WarmItemA>>, createdAt |-> 0, updatedAt |-> 0])
  /\ cursors = EmptyMap
  /\ itemIdCounter = 1
  /\ clients = ("s1" :> <<1>>)
  /\ clientIdCounter = 1
  /\ streams = enqueue(1 :> NewStream("s1"), 1, Connected(1))
  /\ db = [s \in Slugs |-> IF s = "s1" THEN "ok" ELSE "none"]
  /\ now = 0
  /\ reqs = {}
  /\ nreq = 0
  /\ limit = 0
  /\ nmut = 0
  /\ lastEvent = NoEvent
  /\ lastResp = NoResp
  /\ items = <<WarmItemA>>
  /\ myCreatedItems = {}
  /\ myDeletedItems = {}
  /\ recentUpdates = EmptyMap
  /\ pendingUpdates = EmptyMap
  /\ timeouts = {}
  /\ calls = {}
  /\ echoes = {}
  /\ clock = 1
  /\ used = NoneUsed(ops, events, ticks)
  /\ lastStep = NoStep
  /\ guards = EmptyMap
  /\ cursorList = <<>>
  /\ mounted = TRUE
  /\ mine = {}
  /\ skipped = {}

InitClient == ClientStart(MaxClientOps, MaxRemoteEvents, MaxClientTicks)

NextClient ==
  \/ \E request \in Requests : createItem(request)
  \/ \E itemId \in LocalIds, updates \in ClientPatches : updateItem(itemId, updates)
  \/ \E itemId \in LocalIds : deleteItem(itemId)
  \/ \E c \in calls : ServerCreates(c) \/ createResolved(c) \/ createRejected(c)
  \/ \E c \in calls, ok \in BOOLEAN : updateAnswered(c, ok)
  \/ \E c \in calls : deleteResolved(c) \/ deleteRejected(c)
  \/ \E item \in echoes : EchoArrives(item)
  \/ \E e \in RemoteEvents : RemoteEvent(e)
  \/ \E t \in timeouts : debounceFires(t) \/ guardExpires(t)
  \/ \E d \in ClockSteps : Advance(d)

SpecClient == InitClient /\ [][NextClient]_vars

\* the hook while items are edited and events of other clients arrive, over half a second
InitStale == ClientStart(MaxStaleOps, MaxStaleEvents, MaxStaleTicks)

NextStale ==
  \/ \E itemId \in LocalIds, updates \in ClientPatches : updateItem(itemId, updates)
  \/ \E itemId \in LocalIds : deleteItem(itemId)
  \/ \E c \in calls : deleteResolved(c) \/ deleteRejected(c)
  \/ \E e \in {f \in RemoteEvents : f.type # "item:created"} : RemoteEvent(e)
  \/ \E d \in {50, 450} : Advance(d)

SpecStale == InitStale /\ [][NextStale]_vars

\* the hook while an item is dragged
InitDebounce == ClientStart(MaxDebounceOps, 0, MaxDebounceTicks)

NextDebounce ==
  \/ \E itemId \in LocalIds, updates \in ClientPatches : updateItem(itemId, updates)
  \/ \E itemId \in LocalIds : deleteItem(itemId)
  \/ \E c \in calls, ok \in BOOLEAN : updateAnswered(c, ok)
  \/ \E c \in calls : deleteResolved(c) \/ deleteRejected(c)
  \/ \E t \in timeouts : debounceFires(t)
  \/ Advance(50)

SpecDebounce == InitDebounce /\ [][NextDebounce]_vars

\* the hook while items are deleted and events of other clients arrive, over seconds
InitDelete == ClientStart(MaxDeleteOps, MaxDeleteEvents, MaxDeleteTicks)

NextDelete ==
  \/ \E itemId \in LocalIds : deleteItem(itemId)
  \/ \E c \in calls : deleteResolved(c) \/ deleteRejected(c)
  \/ \E e \in RemoteEvents : RemoteEvent(e)
  \/ \E t \in timeouts : guardExpires(t)
  \/ \E d \in {450, 5000} : Advance(d)

SpecDelete == InitDelete /\ [][NextDelete]_vars

\* ---- the cleanup of the effect
\* every pending timer is cleared, the pending map emptied, DELETE /:slug/cursors/:clientId
\* is sent and the EventSource closed
cleanup ==
  /\ mounted
  /\ timeouts' = {t \in timeouts :
                    \A id \in DOMAIN pendingUpdates : t.n # pendingUpdates[id].timeout}
  /\ pendingUpdates' = EmptyMap
  /\ calls' = calls \cup {[NoCall EXCEPT !.n = Ticket, !.kind = "removeCursor",
                                         !.id = MyClientId]}
  /\ mounted' = FALSE
  /\ used' = [used EXCEPT !.tickets = @ + 1]
  /\ lastStep' = Step("cleanup", Ticket, "", TRUE)
  /\ UNCHANGED <<serverVars, items, myCreatedItems, myDeletedItems, recentUpdates, echoes,
                 clock, guards, cursorList, mine, skipped>>

\* spaceApi.removeCursor is answered: the result is not looked at
removeCursorAnswered(c) ==
  /\ c \in calls /\ c.kind = "removeCursor"
  /\ calls' = calls \ {c}
  /\ lastStep' = Step("removeCursorAnswered", c.n, "", TRUE)
  /\ UNCHANGED sessionVars
  /\ UNCHANGED <<serverVars, items, myCreatedItems, myDeletedItems, recentUpdates,
                 pendingUpdates, timeouts, echoes, clock, used, guards>>

\* the hook while an item is dragged and the component is unmounted: the callbacks of
\* the hook are called while it is mounted, responses and timers come whenever they come
InitUnmount == ClientStart(MaxDebounceOps, 0, MaxDebounceTicks)

NextUnmount ==
  \/ mounted /\ \E itemId \in LocalIds, updates \in ClientPatches : updateItem(itemId, updates)
  \/ mounted /\ \E itemId \in LocalIds : deleteItem(itemId)
  \/ cleanup
  \/ \E c \in calls, ok \in BOOLEAN : updateAnswered(c, ok)
  \/ \E c \in calls : deleteResolved(c) \/ deleteRejected(c) \/ removeCursorAnswered(c)
  \/ \E t \in timeouts : debounceFires(t) \/ guardExpires(t)
  \/ \E d \in {50, 5000} : Advance(d)

SpecUnmount == InitUnmount /\ [][NextUnmount]_vars

\* ------------------------------------------------------------------ one hook and the server
\* the hook of one client against the handlers of the server: its requests are handled by
\* the routes, its EventSource reads the frames of its stream; other clients edit the
\* same space
MyStream == 1

\* a ?? b
Coalesce(a, b) == IF a = UndefStr THEN b ELSE a

\* the cursor cases of the SSE callback
onCursorEvent(prev, e) ==
  CASE e.type = "cursor:join" ->
         IF e.cursor.clientId = MyClientId THEN prev
         ELSE IF \E k \in DOMAIN prev : prev[k].clientId = e.cursor.clientId THEN prev
         ELSE Append(prev, [clientId |-> e.cursor.clientId, x |-> e.cursor.x, y |-> e.cursor.y,
                            name |-> Coalesce(e.cursor.name, "Guest"),
                            color |-> Coalesce(e.cursor.color, "#888888")])
    [] e.type = "cursor:move" ->
         IF e.cursor.clientId = MyClientId THEN prev
         ELSE [k \in DOMAIN prev |->
                 IF prev[k].clientId = e.cursor.clientId
                 THEN [clientId |-> e.cursor.clientId, x |-> e.cursor.x, y |-> e.cursor.y,
                       name |-> Coalesce(e.cursor.name, prev[k].name),
                       color |-> Coalesce(e.cursor.color, prev[k].color)]
                 ELSE prev[k]]
    [] e.type = "cursor:leave" ->
         SelectSeq(prev, LAMBDA c : c.clientId # e.cursor.clientId)
    [] OTHER -> prev

\* the frames the server has enqueued on the hook's stream and the hook has not read
Unread == IF MyStream \in DOMAIN streams THEN streams[MyStream].frames ELSE <<>>

\* the item:updated event is one of another client and the stale window discards it
discardsRemote(e) ==
  /\ e.type = "item:updated" /\ e.seq \notin mine
  /\ e.item.id \notin myDeletedItems /\ isRecent(e.item.id, clock)

\* the EventSource hands the next frame to the callback
Deliver ==
  /\ mounted /\ Unread # <<>>
  /\ LET e == Head(Unread)
     IN /\ streams' = [streams EXCEPT ![MyStream].frames = Tail(@)]
        /\ onEvent(e)
        /\ cursorList' = onCursorEvent(cursorList, e)
        /\ skipped' = IF discardsRemote(e) THEN skipped \cup {e.item.id} ELSE skipped
        /\ lastStep' = Step(e.type, e.seq,
                            CASE e.type \in {"item:created", "item:updated"} -> e.item.id
                              [] e.type = "item:deleted" -> e.itemId
                              [] e.type \in {"cursor:join", "cursor:move", "cursor:leave"} ->
                                   e.cursor.clientId
                              [] OTHER -> "",
                            reachesSetItems(e))
  /\ UNCHANGED <<spaces, cursors, itemIdCounter, clients, clientIdCounter, db, now, reqs, nreq,
                 limit, nmut, lastEvent, lastResp>>
  /\ UNCHANGED <<myDeletedItems, recentUpdates, pendingUpdates, timeouts, calls, echoes, clock,
                 used, guards, mounted, mine>>

\* PATCH /:slug/items/:itemId of the hook's updateItem is handled; sid: the status on its
\* way back
ServerUpdates(c) ==
  /\ c \in calls /\ c.kind = "update" /\ c.sid = UndefStr
  /\ Accepting
  /\ nreq' = nreq + 1
  /\ LET r == NewReq("updateItem", "s1", c.id)
         res == updateResult(spaces, "s1", c.id, c.updates, now)
     IN /\ spaces' = res.spaces
        /\ calls' = (calls \ {c}) \cup {[c EXCEPT !.sid = ToString(res.status)]}
        /\ IF res.status = 404
           THEN /\ Respond(r, 404, NoItem)
                /\ UNCHANGED <<reqs, nmut, hubVars, lastEvent, mine>>
           ELSE /\ reqs' = {IF q.op = "createItem" /\ q.item.oid = res.item.oid
                            THEN [q EXCEPT !.item = res.item] ELSE q : q \in reqs}
                /\ nmut' = nmut + 1
                /\ mine' = mine \cup {nmut + 1}
                /\ Publish("s1", Event("item:updated", res.item, UndefStr, NoCursor, nmut + 1))
                /\ Respond(r, 200, res.item)
  /\ UNCHANGED <<cursors, itemIdCounter, clientIdCounter, db, now>>
  /\ UNCHANGED <<items, myCreatedItems, myDeletedItems, recentUpdates, pendingUpdates,
                 timeouts, echoes, clock, used, lastStep, guards, cursorList, mounted, skipped>>

\* the hook is mounted with the items of GET /:slug; its EventSource is not open yet
SessionStart(ops, ticks, requests) ==
  /\ spaces = ("s1" :> [items |-> <<WarmItemA>>, createdAt |-> 0, updatedAt |-> 0])
  /\ cursors = EmptyMap
  /\ itemIdCounter = 1
  /\ clients = EmptyMap
  /\ clientIdCounter = 0
  /\ streams = EmptyMap
  /\ db = [s \in Slugs |-> IF s = "s1" THEN "ok" ELSE "none"]
  /\ now = 0
  /\ reqs = {}
  /\ nreq = 0
  /\ limit = requests
  /\ nmut = 0
  /\ lastEvent = NoEvent
  /\ lastResp = NoResp
  /\ items = <<WarmItemA>>
  /\ myCreatedItems = {}
  /\ myDeletedItems = {}
  /\ recentUpdates = EmptyMap
  /\ pendingUpdates = EmptyMap
  /\ timeouts = {}
  /\ calls = {}
  /\ echoes = {}
  /\ clock = 1
  /\ used = NoneUsed(ops, 0, ticks)
  /\ lastStep = NoStep
  /\ guards = EmptyMap
  /\ cursorList = <<>>
  /\ mounted = TRUE
  /\ mine = {}
  /\ skipped = {}

\* the EventSource of the hook opens: GET /:slug/events
Subscribes == clientIdCounter = 0 /\ EventsStart("s1")

InitSession == SessionStart(MaxSessionOps, MaxSessionTicks, MaxSessionReqs)

NextSession ==
  \/ Subscribes
  \/ \E updates \in Patches : UpdateItem("s1", WarmItemA.id, updates)
  \/ \E itemId \in LocalIds, updates \in ClientPatches : updateItem(itemId, updates)
  \/ \E t \in timeouts : debounceFires(t)
  \/ \E c \in calls : ServerUpdates(c)
  \/ \E c \in calls : c.sid # UndefStr /\ updateAnswered(c, c.sid = "200")
  \/ Deliver
  \/ \E d \in {50, 450} : Advance(d)

SpecSession == InitSession /\ [][NextSession]_vars

\* the same hook while the cursors of the space move: the hook's own cursor is c2
NextLateJoin ==
  \/ Subscribes
  \/ \E c \in CursorInputs : CursorStart("s1", c)
  \/ \E clientId \in CursorClientIds : RemoveCursor("s1", clientId)
  \/ Deliver

SpecLateJoin == InitSession /\ [][NextLateJoin]_vars

\* ================================================================== claims
Registered(cl, slug) == IF slug \in DOMAIN cl THEN Range(cl[slug]) ELSE {}
Responded == lastResp'.rid # lastResp.rid

\* what one broadcast call on (slug, exclude) does to the streams and the registry
FanOut(slug, exclude) ==
  LET N == Registered(clients, slug)
      aimed == {c \in N : c # exclude}
      called == {c \in DOMAIN streams : streams'[c].calls # streams[c].calls}
  IN /\ called = aimed
     /\ Cardinality(called) = Cardinality(N) - (IF exclude \in N THEN 1 ELSE 0)
     /\ \A c \in aimed :
          /\ streams'[c].calls = streams[c].calls + 1
          /\ IF Throws(streams, c)
             THEN c \notin Registered(clients', slug) /\ streams'[c].frames = streams[c].frames
             ELSE streams'[c].frames = Append(streams[c].frames, lastEvent'.event)
     /\ \A c \in DOMAIN streams \ aimed : streams'[c] = streams[c]
\* C1: one broadcast(slug, event, exclude) call makes exactly one enqueue call on each
\* subscriber registered for the slug, except the excluded one (N calls, N-1 when the
\* excluded id is registered), and none on anyone else; the frame is appended where the
\* call does not throw, and a subscriber whose enqueue throws is not in the registry
\* when the call returns.
C1_FanOut ==
  [][(Responded /\ lastResp'.op = "broadcast") => FanOut(lastResp'.slug, lastResp'.sub)]_vars

\* three subscribers, one excluded, one whose enqueue threw, one that got the frame
C1_Witness ==
  /\ lastResp.op = "broadcast"
  /\ \E a, b, c \in DOMAIN streams :
       /\ streams[a].slug = lastResp.slug /\ streams[b].slug = lastResp.slug
       /\ streams[c].slug = lastResp.slug
       /\ a = lastResp.sub /\ a \in Registered(clients, lastResp.slug)
       /\ streams[a].calls = 0
       /\ streams[b].state = "errored" /\ streams[b].calls = 1
       /\ b \notin Registered(clients, lastResp.slug)
       /\ streams[c].frames = <<lastEvent.event>>

ItemEvents == {"item:created", "item:updated", "item:deleted", "space:reset"}
Frames(c) == streams[c].frames

\* C2: every subscriber receives the item events of its space in the order in which
\* the mutations they report were applied to the space (seq is that order).
C2_EventOrder ==
  \A c \in DOMAIN streams : \A i, j \in DOMAIN Frames(c) :
    (i < j /\ Frames(c)[i].type \in ItemEvents /\ Frames(c)[j].type \in ItemEvents)
      => Frames(c)[i].seq < Frames(c)[j].seq

\* C3: a request during which a persistence call rejected still succeeds, keeps the
\* mutation it made (nothing is rolled back as it returns) and, when it is a create,
\* delete or reset, still broadcasts its event.
C3_MirrorIsolated ==
  [][(Responded /\ lastResp'.failed
        /\ lastResp'.op \in {"getSpace", "createItem", "deleteItem", "reset"})
     => /\ lastResp'.status \in {200, 201}
        /\ spaces' = spaces
        /\ lastResp'.op # "getSpace"
             => lastEvent' # lastEvent /\ lastEvent'.slug = lastResp'.slug]_vars

MutatingOps == {"createItem", "updateItem", "deleteItem", "reset", "cursor"}

\* C4: a mutating request that arrives while the mirror reports its slug blocked is
\* answered Forbidden.
C4_BlockedRejects ==
  (lastResp.blk /\ lastResp.op \in MutatingOps) => lastResp.status = 403

\* C5: no space holds two items with the same id.
C5_UniqueIds ==
  \A slug \in DOMAIN spaces : \A i, j \in DOMAIN spaces[slug].items :
    i # j => spaces[slug].items[i].id # spaces[slug].items[j].id

\* C6: no create applied after the delete of an id produces an item with that id
\* (read off a subscriber's frames: a created item's mutation precedes any delete of
\* its id).
C6_NoIdReuse ==
  \A c \in DOMAIN streams : \A i, j \in DOMAIN Frames(c) :
    (Frames(c)[i].type = "item:deleted" /\ Frames(c)[j].type = "item:created"
       /\ Frames(c)[j].item.id = Frames(c)[i].itemId)
      => Frames(c)[j].seq < Frames(c)[i].seq

\* C7: after item:deleted for an id no item:updated for that id is broadcast.
C7_NoUpdateAfterDelete ==
  \A c \in DOMAIN streams : \A i, j \in DOMAIN Frames(c) :
    (i < j /\ Frames(c)[i].type = "item:deleted" /\ Frames(c)[j].type = "item:updated")
      => Frames(c)[j].item.id # Frames(c)[i].itemId

\* a delete request for (slug, itemId) arrives in this step: it is answered at once or
\* its handler is suspended
ArrivedDelete(slug, itemId) ==
  /\ nreq' = nreq + 1
  /\ \/ /\ Responded /\ lastResp'.op = "deleteItem"
        /\ lastResp'.slug = slug /\ lastResp'.id = itemId
     \/ \E r \in reqs' \ reqs : r.op = "deleteItem" /\ r.slug = slug /\ r.id = itemId

\* C8: a delete of an id that is not in the space, or in a space that does not exist,
\* returns NotFound and changes neither the spaces, the cursors, the registry nor the
\* streams, and broadcasts nothing.
C8_DeleteMissing ==
  [][nreq' = nreq + 1
     => \A slug \in Slugs, itemId \in KnownItemIds :
          (ArrivedDelete(slug, itemId) /\ itemId \notin ItemIdsOf(slug))
            => /\ Responded /\ lastResp'.status = 404
               /\ UNCHANGED <<spaces, cursors, clients, streams, lastEvent, reqs>>]_vars

C8_Witness ==
  /\ lastResp.op = "deleteItem" /\ lastResp.status = 404
  /\ lastResp.slug \in DOMAIN spaces /\ lastResp.slug \in DOMAIN cursors
  /\ lastResp.slug \in DOMAIN clients
  /\ Len(spaces[lastResp.slug].items) >= 2
  /\ lastResp.id \notin ItemIdsOf(lastResp.slug)
  /\ now > spaces[lastResp.slug].updatedAt

\* C9: an update that names a slug with no Space record, or an id the space does not
\* hold, returns NotFound; no space is created, no item and no timestamp changes, and
\* nothing is broadcast.
C9_UpdateMissing ==
  [][(Responded /\ lastResp'.op = "updateItem"
        /\ lastResp'.id \notin ItemIdsOf(lastResp'.slug))
     => /\ lastResp'.status = 404
        /\ UNCHANGED <<spaces, cursors, clients, streams, lastEvent, reqs>>]_vars

C9_Witness ==
  /\ lastResp.op = "updateItem" /\ lastResp.status = 404
  /\ lastResp.slug \notin DOMAIN spaces
  /\ now > 0

\* the step merged updates into the first item with itemId and touched nothing else
PartialMerge(slug, itemId, updates) ==
  LET old == spaces[slug].items
      new == spaces'[slug].items
      k == findIndex(old, itemId)
  IN /\ Len(new) = Len(old)
     /\ \A i \in DOMAIN old : i # k => new[i] = old[i]
     /\ new[k].x = (IF updates.x # UndefNum THEN updates.x ELSE old[k].x)
     /\ new[k].y = (IF updates.y # UndefNum THEN updates.y ELSE old[k].y)
     /\ new[k].color = (IF updates.color # UndefStr THEN updates.color ELSE old[k].color)
     /\ new[k].zIndex = (IF updates.zIndex # UndefNum THEN updates.zIndex ELSE old[k].zIndex)
     /\ new[k].id = old[k].id /\ new[k].oid = old[k].oid /\ new[k].type = old[k].type
     /\ new[k].createdBy = old[k].createdBy /\ new[k].createdAt = old[k].createdAt
     /\ new[k].updatedAt = now
\* C10: a successful update sets the fields present in the patch and the item's
\* updatedAt; the item's other fields and the space's other items are unchanged.
C10_PartialMerge ==
  [][(Responded /\ lastResp'.op = "updateItem" /\ lastResp'.status = 200)
     => \A updates \in Patches :
          UpdateItem(lastResp'.slug, lastResp'.id, updates)
            => PartialMerge(lastResp'.slug, lastResp'.id, updates)]_vars

\* an update of x alone has been applied to an item whose color and zIndex had been
\* patched before, in a space that holds another item
C10_Witness ==
  /\ lastResp.op = "updateItem" /\ lastResp.status = 200
  /\ \E i, j \in DOMAIN spaces[lastResp.slug].items :
       /\ i # j
       /\ spaces[lastResp.slug].items[i].id = lastResp.id
       /\ spaces[lastResp.slug].items[i].x = 5
       /\ spaces[lastResp.slug].items[i].color = "blue"
       /\ spaces[lastResp.slug].items[i].zIndex = 3
       /\ lastEvent.event.item = spaces[lastResp.slug].items[i]

\* ---- create
\* the create requests whose item is pushed in this step
Pushed == {q \in reqs' : /\ q.op = "createItem" /\ q.pc = "findUnique"
                         /\ \A p \in reqs : p.rid = q.rid => p.pc # "findUnique"}
\* the create request answered 201 in this step
Returned == {r \in reqs \ reqs' : /\ Responded /\ lastResp'.rid = r.rid
                                  /\ r.op = "createItem" /\ lastResp'.status = 201}
Reproduces(item, body) ==
  /\ item.type = body.type /\ item.x = body.x /\ item.y = body.y
  /\ item.color = body.color /\ item.createdBy = body.createdBy
  /\ item.zIndex = 0 /\ item.createdAt = item.updatedAt
Appended(slug, item) == spaces'[slug].items = Append(spaces[slug].items, item)
Stored(q) == spaces'[q.slug].items[Len(spaces'[q.slug].items)]

C12_CreateDelivery ==
  [][\A r \in Returned :
       LET e == lastEvent'.event
       IN /\ lastEvent'.slug = r.slug
          /\ e.type = "item:created" /\ e.item.oid = r.rid /\ e.item.id = r.id
          /\ \A i \in DOMAIN spaces[r.slug].items :
               spaces[r.slug].items[i].oid = r.rid
                 => /\ e.item.id = spaces[r.slug].items[i].id
                    /\ e.item.x = spaces[r.slug].items[i].x
                    /\ e.item.y = spaces[r.slug].items[i].y
          /\ \A c \in Registered(clients, r.slug) :
               /\ streams'[c].calls = streams[c].calls + 1
               /\ \A k \in DOMAIN Frames(c) :
                    Frames(c)[k].type = "item:created" => Frames(c)[k].item.oid # r.rid
               /\ ~Throws(streams, c) => streams'[c].frames = Append(Frames(c), e)]_vars

\* the subscriber's last frame is the item:created of the create just answered, for an
\* item that was moved before the event went out and is in the space at that position
C12_Witness ==
  /\ lastResp.op = "createItem" /\ lastResp.status = 201
  /\ 1 \in Registered(clients, lastResp.slug)
  /\ Len(Frames(1)) >= 2
  /\ Frames(1)[Len(Frames(1))].type = "item:created"
  /\ Frames(1)[Len(Frames(1))].item.oid = lastResp.rid
  /\ Frames(1)[Len(Frames(1))].item.y = 2
  /\ \E i \in DOMAIN spaces[lastResp.slug].items :
       spaces[lastResp.slug].items[i] = Frames(1)[Len(Frames(1))].item

\* ---- reset
\* the reset requests that arrive in this step, and those that end in it
ResetArrived == {q \in reqs' : q.op = "reset" /\ \A p \in reqs : p.rid # q.rid}
ResetEnded == {r \in reqs : r.op = "reset" /\ \A q \in reqs' : q.rid # r.rid}

\* C13: a reset of an existing space empties its items and keeps the Space record, the
\* space's cursor map and its subscriber set (a subscriber leaves the set only if its
\* enqueue throws), and the reset ends with space:reset broadcast.
C13_ResetKeepsPresence ==
  [][/\ \A q \in ResetArrived :
          q.slug \in DOMAIN spaces
            => /\ q.slug \in DOMAIN spaces'
               /\ spaces'[q.slug].items = <<>>
               /\ spaces'[q.slug].createdAt = spaces[q.slug].createdAt
               /\ cursors' = cursors /\ clients' = clients
     /\ \A r \in ResetEnded :
          r.slug \in DOMAIN spaces
            => /\ spaces' = spaces /\ cursors' = cursors
               /\ Registered(clients', r.slug)
                    = {c \in Registered(clients, r.slug) : ~Throws(streams, c)}
               /\ lastEvent' = [slug |-> r.slug,
                                event |-> Event("space:reset", NoItem, UndefStr, NoCursor,
                                                r.seq)]
               /\ \A c \in Registered(clients', r.slug) :
                    streams'[c].frames = Append(Frames(c), lastEvent'.event)]_vars

\* ---- getOrCreate
\* a delete or a reset arrives in this step: the only requests that take items out
Discarding == \E q \in reqs' : q.op \in {"deleteItem", "reset"} /\ \A p \in reqs : p.rid # q.rid
Oids(arr) == [i \in DOMAIN arr |-> arr[i].oid]
IsPrefix(s, t) == Len(s) <= Len(t) /\ \A i \in DOMAIN s : s[i] = t[i]

\* C14: once a slug has a Space record, every later request on the slug, also one that
\* overlaps the awaited upsert of the first, works on that same record: the record is
\* never replaced by a second one (createdAt stays), the items in it are not discarded,
\* and updatedAt does not decrease.
C14_GetOrCreateIdempotent ==
  [][\A slug \in DOMAIN spaces :
       /\ slug \in DOMAIN spaces'
       /\ spaces'[slug].createdAt = spaces[slug].createdAt
       /\ spaces'[slug].updatedAt >= spaces[slug].updatedAt
       /\ ~Discarding => IsPrefix(Oids(spaces[slug].items), Oids(spaces'[slug].items))]_vars

\* two requests on a new slug overlap: the first is suspended at its upsert, the second
\* has pushed an item into the record the first one made at an earlier clock reading
C14_Witness ==
  \E r \in reqs, q \in reqs :
    /\ r.pc = "upsert" /\ q.op = "createItem" /\ q.pc = "findUnique" /\ q.slug = r.slug
    /\ now > 0 /\ spaces[r.slug].createdAt = 0
    /\ Len(spaces[r.slug].items) = 1

\* ---- cursors
CursorAnswered == Responded /\ lastResp'.op = "cursor"

\* C15: a cursor update broadcasts cursor:join exactly when the space had no entry for
\* the clientId immediately before, and cursor:move otherwise; the event carries the
\* position now stored; an update that directly follows a join or move of the same
\* clientId in the same space is a move.
C15_JoinOrMove ==
  [][CursorAnswered =>
       LET e == lastEvent'.event
           slug == lastResp'.slug
           had == e.cursor.clientId \in DOMAIN CursorsOf(cursors, slug)
       IN /\ lastEvent'.slug = slug
          /\ e.seq = nmut'
          /\ e.type = (IF had THEN "cursor:move" ELSE "cursor:join")
          /\ cursors'[slug][e.cursor.clientId] = e.cursor
          /\ (/\ lastEvent.slug = slug
              /\ lastEvent.event.type \in {"cursor:join", "cursor:move"}
              /\ lastEvent.event.cursor.clientId = e.cursor.clientId)
               => e.type = "cursor:move"]_vars

\* the second of two updates of c1 has been broadcast as a move
C15_Witness ==
  /\ lastResp.op = "cursor" /\ lastResp.rid = 2
  /\ lastEvent.event.type = "cursor:move"
  /\ lastEvent.event.cursor.clientId = "c1" /\ lastEvent.event.cursor.x = 2
  /\ cursors[lastResp.slug]["c1"].x = 2

\* C16: removing the cursor of a clientId broadcasts cursor:leave with the position
\* last stored for that clientId in that space; removing a clientId that has no entry
\* broadcasts nothing (there is no position to report).
C16_LeaveCarriesLastPosition ==
  [][(Responded /\ lastResp'.op = "removeCursor") =>
       LET slug == lastResp'.slug
           clientId == lastResp'.id
       IN IF clientId \in DOMAIN CursorsOf(cursors, slug)
          THEN /\ lastEvent'.slug = slug
               /\ lastEvent'.event.type = "cursor:leave"
               /\ lastEvent'.event.cursor = cursors[slug][clientId]
               /\ lastEvent'.event.seq = nmut'
          ELSE UNCHANGED <<lastEvent, streams, cursors>>]_vars

\* C17: the cursors table has an entry for a slug only while the slug has at least one
\* tracked cursor, and a step that drops the entry leaves every Space record in place.
C17_NoEmptyCursorMaps ==
  /\ [](\A slug \in DOMAIN cursors : DOMAIN cursors[slug] # {})
  /\ [][(DOMAIN cursors' # DOMAIN cursors) => spaces' = spaces]_vars

\* the last cursor of s1 has been removed: its entry is gone and the space is still there
C17_Witness ==
  /\ lastResp.op = "removeCursor" /\ lastResp.slug = "s1"
  /\ lastEvent.event.type = "cursor:leave" /\ lastEvent.event.cursor.y = 7
  /\ "s1" \notin DOMAIN cursors
  /\ "s1" \in DOMAIN spaces

\* ---- the hub registry
\* C18: the clients map has an entry for a slug only while the slug has at least one
\* registered subscriber.
C18_NoEmptyClientSets ==
  \A slug \in DOMAIN clients : Len(clients[slug]) > 0

\* a broadcast has evicted the only subscriber of its slug and the entry is gone
C18_Witness ==
  /\ lastResp.op = "broadcast"
  /\ lastResp.slug \notin DOMAIN clients
  /\ \E c \in DOMAIN streams :
       /\ streams[c].slug = lastResp.slug
       /\ streams[c].state = "errored" /\ streams[c].calls = 1
  /\ \E slug \in DOMAIN clients : slug # lastResp.slug

\* C19: unsubscribe(slug, id) removes id from the subscribers of slug and nothing else;
\* when id is not registered under slug (a second call, an unknown id, another slug's
\* id, an unknown slug) the registry is unchanged.
C19_UnsubscribeIdempotent ==
  [][(Responded /\ lastResp'.op = "unsubscribe") =>
       LET slug == lastResp'.slug
           id == lastResp'.sub
       IN /\ Registered(clients', slug) = Registered(clients, slug) \ {id}
          /\ \A s \in Slugs \ {slug} :
               /\ s \in DOMAIN clients' <=> s \in DOMAIN clients
               /\ s \in DOMAIN clients => clients'[s] = clients[s]
          /\ id \notin Registered(clients, slug) => clients' = clients
          /\ UNCHANGED streams]_vars

\* unsubscribe was called with the id of a subscriber of another slug, and with an id
\* removed before: the first is still registered
C19_Witness ==
  /\ lastResp.op = "unsubscribe"
  /\ lastResp.sub \in DOMAIN streams
  /\ lastResp.sub \notin Registered(clients, lastResp.slug)
  /\ \E c \in DOMAIN streams :
       /\ streams[c].slug # lastResp.slug
       /\ c \in Registered(clients, streams[c].slug)
  /\ \E c \in DOMAIN streams :
       /\ streams[c].slug = lastResp.slug
       /\ c \notin Registered(clients, lastResp.slug)
       /\ streams[c].state = "readable"

\* ---- subscription streams
\* C20: on every subscription stream the first frame is the connected frame with the
\* stream's own subscriber id, it is there from the moment the subscriber is registered,
\* and no later frame is a connected frame.
C20_HandshakeFirst ==
  \A c \in DOMAIN streams :
    /\ Len(Frames(c)) >= 1
    /\ Frames(c)[1] = Connected(c)
    /\ \A k \in DOMAIN Frames(c) : k > 1 => Frames(c)[k].type # "connected"

\* a registered stream has taken a broadcast event after its handshake
C20_Witness ==
  \E c \in DOMAIN streams :
    /\ Len(Frames(c)) = 2
    /\ Frames(c)[1] = Connected(c)
    /\ Frames(c)[2].type = "cursor:join"
    /\ c \in Registered(clients, streams[c].slug)

\* C21: a stream is closed by its cancel() and stays closed: in the step that closes it
\* its subscriber leaves the registry, a closed stream is registered under no slug, and
\* nothing is enqueued on it (its frames and its count of enqueue calls stay).
C21_StreamLifecycle ==
  [][\A c \in DOMAIN streams :
       /\ streams'[c].state = "closed"
            => \A slug \in Slugs : c \notin Registered(clients', slug)
       /\ streams[c].state = "closed" => streams'[c] = streams[c]]_vars

\* a stream was cancelled after its handshake and a later broadcast on its slug did not
\* reach it
C21_Witness ==
  \E c \in DOMAIN streams :
    /\ streams[c].state = "closed"
    /\ Frames(c) = <<Connected(c)>>
    /\ lastResp.op = "cursor"
    /\ lastEvent.slug = streams[c].slug

\* ---- a dead subscriber
\* the step sends an event on the hub
Published == lastEvent' # lastEvent

\* C22: when an enqueue throws during the broadcast of a store handler, the handler still
\* answers with success, every other registered subscriber whose enqueue does not throw
\* gets the frame in that call and stays registered, and the store keeps the mutation.
C22_DeadSubscriberLocal ==
  [][(Published /\ \E d \in Registered(clients, lastEvent'.slug) : Throws(streams, d))
       => LET slug == lastEvent'.slug
              e == lastEvent'.event
          IN /\ Responded /\ lastResp'.status \in {200, 201}
             /\ \A c \in Registered(clients, slug) :
                  ~Throws(streams, c)
                    => /\ streams'[c].frames = Append(Frames(c), e)
                       /\ c \in Registered(clients', slug)
             /\ IF e.type = "item:updated"
                THEN \E i \in DOMAIN spaces'[slug].items : spaces'[slug].items[i] = e.item
                ELSE spaces' = spaces]_vars

\* the first subscriber's sink failed, a delete was then broadcast: the first subscriber
\* was evicted with no frame added, the second has the event as its last frame, the
\* request was answered 200 and the item is gone from the space
C22_Witness ==
  /\ streams[1].state = "errored" /\ 1 \notin Registered(clients, "s1")
  /\ Len(Frames(1)) = 1 /\ streams[1].calls = 2
  /\ 2 \in Registered(clients, "s1")
  /\ Frames(2)[Len(Frames(2))] = lastEvent.event
  /\ lastEvent.event.type = "item:deleted"
  /\ lastResp.op = "deleteItem" /\ lastResp.status = 200
  /\ lastEvent.event.itemId \notin ItemIdsOf("s1")

\* ---- two updates of one item
\* the item has the value of every field the patch carries
Carries(item, updates) ==
  /\ updates.x # UndefNum => item.x = updates.x
  /\ updates.y # UndefNum => item.y = updates.y
  /\ updates.color # UndefStr => item.color = updates.color
  /\ updates.zIndex # UndefNum => item.zIndex = updates.zIndex

\* the two patches have no field in common
DifferentFields(u, v) ==
  /\ u.x = UndefNum \/ v.x = UndefNum
  /\ u.y = UndefNum \/ v.y = UndefNum
  /\ u.color = UndefStr \/ v.color = UndefStr
  /\ u.zIndex = UndefNum \/ v.zIndex = UndefNum

\* the step answers a successful update of the item whose update was the last event sent
SecondUpdate ==
  /\ Responded /\ lastResp'.op = "updateItem" /\ lastResp'.status = 200
  /\ lastEvent.event.type = "item:updated"
  /\ lastEvent.slug = lastResp'.slug
  /\ lastEvent.event.item.oid = lastResp'.item.oid

\* C28 as stated: after an update of other fields the item held by the server no longer
\* carries the edit of the update before it.
C28_LaterWinsOutright ==
  [][SecondUpdate
       => \A earlier, later \in Patches :
            (/\ DifferentFields(earlier, later)
             /\ Carries(lastEvent.event.item, earlier)
             /\ UpdateItem(lastResp'.slug, lastResp'.id, later))
              => \E i \in DOMAIN spaces'[lastResp'.slug].items :
                   /\ spaces'[lastResp'.slug].items[i].oid = lastResp'.item.oid
                   /\ ~Carries(spaces'[lastResp'.slug].items[i], earlier)]_vars

\* C28: when two updates of different fields of one item follow each other, the item held
\* by the server carries both edits: the later update changes only the fields of its own
\* patch and the earlier update's fields stay as that update left them.
C28_BothEditsKept ==
  [][SecondUpdate
       => \A earlier, later \in Patches :
            (/\ DifferentFields(earlier, later)
             /\ Carries(lastEvent.event.item, earlier)
             /\ UpdateItem(lastResp'.slug, lastResp'.id, later))
              => \E i \in DOMAIN spaces'[lastResp'.slug].items :
                   /\ spaces'[lastResp'.slug].items[i] = lastResp'.item
                   /\ Carries(lastResp'.item, earlier)
                   /\ Carries(lastResp'.item, later)
                   /\ lastEvent'.event.item = lastResp'.item]_vars

\* the subscriber's last two frames are updates of one item, the first of x and the second
\* of y, and the item in the space has both values
C28_Witness ==
  /\ lastResp.op = "updateItem" /\ lastResp.status = 200
  /\ Len(Frames(1)) >= 3
  /\ LET n == Len(Frames(1))
     IN /\ Frames(1)[n - 1].type = "item:updated" /\ Frames(1)[n].type = "item:updated"
        /\ Frames(1)[n - 1].item.oid = Frames(1)[n].item.oid
        /\ Frames(1)[n - 1].item.x = 5 /\ Frames(1)[n - 1].item.y = 1
        /\ Frames(1)[n].item.x = 5 /\ Frames(1)[n].item.y = 2
        /\ \E i \in DOMAIN spaces[lastResp.slug].items :
             spaces[lastResp.slug].items[i] = Frames(1)[n].item

\* ---- ghost cursors
\* C29: a cursor leaves the map of its space only in the step that answers a remove-cursor
\* request for its clientId, and the cursor table changes in no step but the answer to a
\* cursor or remove-cursor request: cancel, eviction, reset and item requests keep it.
C29_GhostCursors ==
  [][/\ \A slug \in DOMAIN cursors : \A id \in DOMAIN cursors[slug] :
          id \notin DOMAIN CursorsOf(cursors', slug)
            => /\ Responded /\ lastResp'.op = "removeCursor"
               /\ lastResp'.slug = slug /\ lastResp'.id = id
     /\ cursors' # cursors
          => Responded /\ lastResp'.op \in {"cursor", "removeCursor"}]_vars

\* the subscriber's stream is closed, the space was reset and answered, and the cursor
\* that was there at the start is still in the map
C29_Witness ==
  /\ streams[1].state = "closed" /\ 1 \notin Registered(clients, "s1")
  /\ lastResp.op = "reset" /\ lastResp.status = 200
  /\ spaces["s1"].items = <<>>
  /\ "c1" \in DOMAIN CursorsOf(cursors, "s1")

\* ---- a subscriber that replays its events
\* the ids a subscriber holds after it applied the frames in order to the ids it had
RECURSIVE Replay(_, _)
Replay(ids, frames) ==
  IF frames = <<>> THEN ids
  ELSE LET e == Head(frames)
           next == CASE e.type = "item:created" -> ids \cup {e.item.id}
                     [] e.type = "item:deleted" -> ids \ {e.itemId}
                     [] e.type = "space:reset" -> {}
                     [] OTHER -> ids
       IN Replay(next, Tail(frames))

\* C30: with no request in flight, the subscriber that was there from the start, with the
\* items the space had then, holds after its frames the ids of the items of the space.
C30_SubscriberConverges ==
  (reqs = {} /\ streams[1].state = "readable" /\ 1 \in Registered(clients, "s1"))
    => Replay({WarmItemA.id, WarmItemB.id}, Frames(1)) = ItemIdsOf("s1")

\* ================================================================== claims about the hook
\* how many items of the local list have the id
CountId(id) == Cardinality({k \in DOMAIN items : items[k].id = id})

\* C23: when the response of a create or an item:created event has been processed, the
\* local list holds at most one item with that id, whichever of the response and the echo
\* came first.
C23_OneItemPerCreate ==
  lastStep.op \in {"createResolved", "item:created"} => CountId(lastStep.id) <= 1

\* ---- the 500 ms window
\* the step runs the SSE callback on an item:updated event of another client
UpdatedArrives == used'.events = used.events + 1 /\ lastStep'.op = "item:updated"

\* the client updated the id less than 500 ms ago
UpdatedLately(id) == id \in DOMAIN recentUpdates /\ clock - recentUpdates[id] < 500
\* the local list after the step has the event's item in the place of the item of that id
Replaced(id) ==
  /\ Len(items') = Len(items)
  /\ \A k \in DOMAIN items :
       items'[k] = IF items[k].id = id THEN RemoteVersion(id) ELSE items[k]

\* C24 as stated: an item:updated event is skipped exactly when the client updated the
\* same id less than 500 ms before; otherwise it replaces the local item.
C24_StaleWindow ==
  [][UpdatedArrives
       => /\ ~lastStep'.ok <=> UpdatedLately(lastStep'.id)
          /\ IF UpdatedLately(lastStep'.id) THEN items' = items
             ELSE Replaced(lastStep'.id)]_vars

\* C24: an item:updated event for an id the client has not marked as deleted is skipped
\* exactly when the client updated the same id less than 500 ms before, and the list is
\* then unchanged; otherwise (no update, or one 500 ms or more ago) the event's item
\* replaces the local item of that id.
C24_StaleWindowUnlessDeleted ==
  [][(UpdatedArrives /\ lastStep'.id \notin myDeletedItems)
       => /\ ~lastStep'.ok <=> UpdatedLately(lastStep'.id)
          /\ IF UpdatedLately(lastStep'.id) THEN items' = items
             ELSE Replaced(lastStep'.id)]_vars

\* an event arrived exactly 500 ms after the local update of its item and replaced it
C24_Witness ==
  /\ lastStep.op = "item:updated" /\ lastStep.ok
  /\ lastStep.id \in DOMAIN recentUpdates
  /\ clock - recentUpdates[lastStep.id] = 500
  /\ \E k \in DOMAIN items : items[k] = RemoteVersion(lastStep.id)

\* ---- the 100 ms debounce
\* the newest value of each field in a sequence of patches
Latest(seq, present(_), value(_), none) ==
  LET ks == {k \in DOMAIN seq : present(seq[k])}
  IN IF ks = {} THEN none ELSE value(seq[CHOOSE k \in ks : \A j \in ks : j <= k])
Newest(seq) ==
  [x |-> Latest(seq, LAMBDA u : u.x # UndefNum, LAMBDA u : u.x, UndefNum),
   y |-> Latest(seq, LAMBDA u : u.y # UndefNum, LAMBDA u : u.y, UndefNum),
   color |-> Latest(seq, LAMBDA u : u.color # UndefStr, LAMBDA u : u.color, UndefStr),
   zIndex |-> Latest(seq, LAMBDA u : u.zIndex # UndefNum, LAMBDA u : u.zIndex, UndefNum)]

\* the debounce timers of an item, and the update requests of an item not yet answered
DebounceTimers(tm, id) == {t \in tm : t.kind = "debounce" /\ t.id = id}
UpdateCalls(cs, id) == {c \in cs : c.kind = "update" /\ c.id = id}

\* the step is a position update of the item, made less than 100 ms after the position
\* update before it
DragStep(id) ==
  /\ used'.ops = used.ops + 1 /\ lastStep'.op = "updateItem" /\ lastStep'.id = id
  /\ id \in DOMAIN pendingUpdates /\ id \in DOMAIN pendingUpdates'
  /\ Len(pendingUpdates'[id].issued) = Len(pendingUpdates[id].issued) + 1
  /\ \E t \in DebounceTimers(timeouts, id) : clock - (t.due - 100) < 100

\* the step runs the debounce timer of the item
FlushStep(id) == lastStep'.op = "debounce" /\ lastStep'.id = id /\ lastStep'.n # lastStep.n

\* C25: an item has at most one debounce timer; a position update made less than 100 ms
\* after the one before it sends no request and leaves one timer, set 100 ms ahead; and
\* when the timer runs, one update request is sent, with the newest value of every field
\* of the position updates made since the timer was first set.
C25_WriteCoalescing ==
  /\ [](\A id \in LocalIds \cup DOMAIN pendingUpdates :
          Cardinality(DebounceTimers(timeouts, id)) <= 1)
  /\ [][\A id \in DOMAIN pendingUpdates :
          /\ DragStep(id)
               => /\ calls' = calls
                  /\ \E t \in timeouts' :
                       DebounceTimers(timeouts', id) = {t} /\ t.due = clock + 100
          /\ FlushStep(id)
               => /\ \E c \in calls' \ calls :
                       /\ calls' = calls \cup {c}
                       /\ c.kind = "update" /\ c.id = id
                       /\ c.updates = Newest(pendingUpdates[id].issued)
                  /\ DebounceTimers(timeouts', id) = {}]_vars

\* three position updates of one item within 50 ms, the last one 50 ms after the first,
\* were followed 100 ms after the last by one request that carries x = 120 and y = 2
C25_Witness ==
  /\ lastStep.op = "debounce" /\ used.ops = 3
  /\ recentUpdates[lastStep.id] = 51 /\ clock = 151
  /\ \E c \in calls :
       /\ UpdateCalls(calls, lastStep.id) = {c}
       /\ c.updates = [NoPatch EXCEPT !.x = 120, !.y = 2]

\* ---- the 5 s guard
\* the step runs the SSE callback on an item:created or item:updated event for the id
ItemEventArrives(id) ==
  /\ lastStep'.op \in {"item:created", "item:updated"} /\ lastStep'.id = id
  /\ used'.events = used.events + 1 \/ echoes' # echoes

\* C26 as stated: for 5 s from the moment the client issues a delete for an id, every
\* item:created and item:updated event for the id is skipped and leaves the list as it
\* is, and the id is not in the list.
C26_DeleteGuard ==
  /\ [](\A id \in DOMAIN guards : clock - guards[id].at < 5000 => id \notin LocalIds)
  /\ [][\A id \in DOMAIN guards :
          (ItemEventArrives(id) /\ clock - guards[id].at < 5000)
            => ~lastStep'.ok /\ items' = items]_vars

\* C26: from the moment the client issues a delete for an id until 5 seconds later,
\* unless a delete of that id has been rejected since, every item:created and
\* item:updated event for the id is skipped and leaves the list as it is.
C26_DeleteGuardUnlessRejected ==
  [][\A id \in DOMAIN guards :
       (/\ ItemEventArrives(id)
        /\ ~guards[id].rejected
        /\ clock - guards[id].at < 5000)
         => ~lastStep'.ok /\ items' = items]_vars

\* an item:created event for a deleted id arrived 450 ms after the delete was issued
\* and answered with success, and was skipped
C26_Witness ==
  /\ lastStep.op = "item:created" /\ ~lastStep.ok
  /\ lastStep.id \in DOMAIN guards /\ lastStep.id \in myDeletedItems
  /\ lastStep.id \notin LocalIds
  /\ ~guards[lastStep.id].rejected
  /\ clock - guards[lastStep.id].at = 450
  /\ guards[lastStep.id].okAt = {guards[lastStep.id].at}

\* ---- rejected requests
\* the step is the rejection of request c
Rejects(c) ==
  /\ c \in calls /\ c \notin calls'
  /\ lastStep'.op \in {"createRejected", "updateRejected", "deleteRejected"}
  /\ lastStep'.n = c.n

\* the list after the rejection of c: the created item is gone, the updated item is as
\* it was before the update, the deleted item is back
RolledBack(c) ==
  CASE c.kind = "create" -> ~SomeId(items', c.id)
    [] c.kind = "update" ->
         \A i \in DOMAIN items' :
            items'[i].id = c.id => \E j \in DOMAIN c.before : c.before[j] = items'[i]
    [] c.kind = "delete" -> SomeId(items', c.id)
    [] OTHER -> TRUE

\* C27: whenever the server rejects a create, an update or a delete of the client, the
\* local list is rolled back: the created item is removed, the updated item has its
\* previous fields again, the deleted item is restored.
C27_OptimisticRollback ==
  [][\A c \in calls : Rejects(c) => RolledBack(c)]_vars

\* ================================================================== claims about a session
\* the fields of an item that a user sees and can edit
Shown(item) == [id |-> item.id, x |-> item.x, y |-> item.y, color |-> item.color,
                zIndex |-> item.zIndex]
ShownList(arr) == [k \in DOMAIN arr |-> Shown(arr[k])]

\* every request of the hook is answered, no timer is pending, every frame is read
Quiescent ==
  /\ calls = {} /\ timeouts = {} /\ pendingUpdates = EmptyMap
  /\ MyStream \in DOMAIN streams /\ Unread = <<>>

LocalCopy(id) == {Shown(items[k]) : k \in {j \in DOMAIN items : items[j].id = id}}
ServerCopy(id) ==
  {Shown(spaces["s1"].items[k]) : k \in {j \in DOMAIN spaces["s1"].items :
                                           spaces["s1"].items[j].id = id}}

\* C31: when an item:updated event of another client arrived within 500 ms of a local
\* update of the same item, then once every request and event has been processed the
\* client's copy of the item equals the server's copy.
C31_ConvergesAfterStaleWindow ==
  \A id \in skipped : Quiescent => LocalCopy(id) = ServerCopy(id)

\* C32: once the client's stream is registered and every frame is read, a client that
\* made no edit of its own shows the items of the server, whatever other clients changed
\* after the snapshot was fetched.
C32_NoGapAtJoin ==
  (Quiescent /\ used.ops = 0) => ShownList(items) = ShownList(spaces["s1"].items)

\* ================================================================== claims about creates
\* C33: an id is in myCreatedItems only while the response of its create or its
\* item:created echo has not been processed yet; when both have been, in either order,
\* the id is no longer in the set.
C33_CreatedMarksBounded ==
  \A id \in myCreatedItems :
     \/ \E c \in calls : c.kind = "create" /\ c.sid = id
     \/ \E item \in echoes : item.id = id

\* C34: the rejection of a create removes the temporary item of that create and nothing
\* else: the temporary item of every other create in flight stays in the list, where the
\* response of that create replaces it by its item.
C34_RollbackScoped ==
  [][\A c \in calls :
       (Rejects(c) /\ c.kind = "create")
         => /\ items' = FilterId(items, c.id)
            /\ \A d \in calls' :
                 (d.kind = "create" /\ d.id # c.id /\ SomeId(items, d.id))
                   => SomeId(items', d.id)]_vars

\* ================================================================== claims about pending updates
\* the step is a call of deleteItem for the id
DeleteStep(id) ==
  used'.ops = used.ops + 1 /\ lastStep'.op = "deleteItem" /\ lastStep'.id = id

C36_PendingIsSent ==
  [][\A id \in DOMAIN pendingUpdates :
       id \notin DOMAIN pendingUpdates'
         => \/ DeleteStep(id)
            \/ \E c \in calls' \ calls :
                 c.kind = "update" /\ c.id = id /\ c.updates = pendingUpdates[id].updates]_vars

\* ================================================================== claims about presence
\* the cursor events among the frames follow, for every clientId, join, moves, leave;
\* joined: the clientIds whose join came before the first frame with no leave since
RECURSIVE FollowsProtocol(_, _)
FollowsProtocol(frames, joined) ==
  IF frames = <<>> THEN TRUE
  ELSE LET e == Head(frames)
           id == e.cursor.clientId
       IN CASE e.type = "cursor:join" ->
                 id \notin joined /\ FollowsProtocol(Tail(frames), joined \cup {id})
            [] e.type = "cursor:move" ->
                 id \in joined /\ FollowsProtocol(Tail(frames), joined)
            [] e.type = "cursor:leave" ->
                 id \in joined /\ FollowsProtocol(Tail(frames), joined \ {id})
            [] OTHER -> FollowsProtocol(Tail(frames), joined)

\* C37: the cursor events broadcast on a space, as the subscriber that has been there
\* all along receives them, follow for every clientId the order join, zero or more
\* moves, leave: no move and no leave without a join before it and no leave since, no
\* second join without a leave in between.  (c1 joined before the subscriber's first
\* frame.)
C37_CursorProtocol ==
  streams[1].state = "readable" => FollowsProtocol(streams[1].frames, {"c1"})

\* C38: when the hook has processed a cursor:move of another client, its cursor list has
\* an entry for that client, whether or not the hook was subscribed when the client's
\* cursor:join was broadcast.
C38_MoveShowsCursor ==
  [][(/\ Unread' # Unread /\ cursors' = cursors
      /\ lastStep'.op = "cursor:move" /\ lastStep'.id # MyClientId)
       => \E k \in DOMAIN cursorList' : cursorList'[k].clientId = lastStep'.id]_vars

\* ================================================================== claims about isolation
\* what a slug owns: its items, its cursor map, its subscriber set and the frames of its
\* subscribers' streams
Owned(slug, sp, cur, cl, st) ==
  [space |-> IF slug \in DOMAIN sp THEN <<sp[slug].items>> ELSE <<>>,
   cursors |-> IF slug \in DOMAIN cur THEN <<cur[slug]>> ELSE <<>>,
   subscribers |-> IF slug \in DOMAIN cl THEN <<cl[slug]>> ELSE <<>>,
   frames |-> [c \in {d \in DOMAIN st : st[d].slug = slug} |-> st[c].frames]]

\* the slugs of the requests and streams the step is about: a request that arrived, was
\* resumed or was answered, a stream that was opened, cancelled or broke
ActingSlugs ==
  {q.slug : q \in (reqs' \ reqs) \cup (reqs \ reqs')}
    \cup (IF lastResp'.rid # lastResp.rid THEN {lastResp'.slug} ELSE {})
    \cup {streams'[c].slug : c \in {d \in DOMAIN streams' :
                                      d \notin DOMAIN streams
                                        \/ streams'[d].state # streams[d].state}}

\* C39: a step about slug A (an item create, update or delete, a reset, a cursor update
\* or removal, a subscribe, a stream's end, and the broadcast each of them makes) leaves
\* the items, the cursor map and the subscriber set of every other slug B unchanged and
\* enqueues no frame on a subscriber of B.
C39_SpaceIsolation ==
  [][\A slug \in Slugs :
       slug \notin ActingSlugs
         => Owned(slug, spaces', cursors', clients', streams')
              = Owned(slug, spaces, cursors, clients, streams)]_vars

\* an item of s1 was updated while s2 had an item, a cursor and a subscriber: the
\* subscriber of s1 got the event, the one of s2 nothing
C39_Witness ==
  /\ lastEvent.slug = "s1" /\ lastEvent.event.type = "item:updated"
  /\ lastResp.slug = "s1"
  /\ streams[1].frames = <<Connected(1), lastEvent.event>>
  /\ spaces["s2"].items = <<WarmItemB>> /\ DOMAIN cursors["s2"] = {"c2"}
  /\ clients["s2"] = <<2>> /\ streams[2].frames = <<Connected(2)>>
====
